---------------------------- MODULE Spec2Model ----------------------------
(***************************************************************************)
(* A model of the corpus ingestion and retrieval programs:                 *)
(*   bin/corpus_db_init.py      the docs/chunks schema and the FTS triggers *)
(*   bin/corpus_ingest_pdf.py   batch ingestion of PDFs                     *)
(*   bin/corpus_ingest_txt.py   batch ingestion of plain text               *)
(*   bin/ask_corpus.py          the tiered query planner                    *)
(*                                                                         *)
(* Text is a sequence of one-character strings.  Hashes (sha1, sha256) are *)
(* modelled as injective tagged tuples of what is hashed.                  *)
(***************************************************************************)
EXTENDS Integers, Sequences, FiniteSets, Bags, TLC

VARIABLES
  \* the text pipeline: one raw text normalized, then chunked
  tx_pc,      \* "raw", "normalized" or "chunked"
  tx_raw,     \* the raw text
  tx_norm,    \* normalize_text(raw)
  tx_T,       \* target_chars
  tx_O,       \* overlap_chars
  tx_chunks,  \* what chunk_paragraph_aware returned
  tx_frame,   \* the locals of a call in progress: [paras, buf, start, big]
  \* the store
  db,         \* the writing connection's view: [docs, chunks, fts]
  committed,  \* the last committed state: what every other connection reads
  \* the file system
  files,      \* source files: rel_path -> [text, bad, mtime]
  clock,      \* the time of the last change to a file made between runs
  artifacts,  \* normalized-text files: doc_id -> text, for those that exist
  \* one ingestion run (main of corpus_ingest_pdf.py or corpus_ingest_txt.py)
  ing,        \* [run, todo, pc, cur, done, failed, seen, log]
  ev,         \* the last step taken: [kind, doc_id, old]
  \* one run of the query planner (main of ask_corpus.py)
  ask,        \* [pc, args, tried, calls, chunk_ids, out]
  \* the work linker (main of work_link.py) and the docs table it updates
  wl,         \* [pc, docs, rows, updated, runs, vol, work_title]
  \* the interruptions of ingestion runs so far
  hist        \* [crashes, pc, run]: how many, and where the last one struck

txVars == <<tx_pc, tx_raw, tx_norm, tx_T, tx_O, tx_chunks, tx_frame>>
dbVars == <<db, committed>>
fsVars == <<files, clock, artifacts>>
vars == <<txVars, dbVars, fsVars, ing, ev, ask, wl, hist>>

\* no call of chunk_paragraph_aware in progress
NoFrame == [paras |-> << >>, buf |-> << >>, start |-> 0, big |-> << >>]

(***************************************************************************)
(* Bounds of the model.                                                    *)
(***************************************************************************)
\* longest raw text drawn by the text pipeline
MaxLen == 6
\* largest target_chars drawn by the text pipeline (overlap_chars < target)
MaxT == 6
\* the ingestion's target_chars (2500 in the source) and overlap_chars (200),
\* scaled to the model's short texts
TargetChars == 2
OverlapChars == 1
\* --min-text (200 in the source), scaled likewise
MinText == 2
\* how many times files are edited or removed between runs
MaxEdits == 2
\* how many ingestion runs are interrupted
MaxCrashes == 1
\* the largest chunk_idx of a row written by a bare SQL statement
MaxSyncIdx == 1
\* how many index rows bare SQL statements may leave
MaxIndexRows == 2
\* the most words of a question
MaxWords == 2
\* the largest --k
MaxK == 2
\* the over-fetch factor of search_chunks (60 in the source), scaled to the
\* model's corpus
FetchMult == 2
\* the largest N and M of a "Vol. N of M" in a file name
MaxVol == 3
\* the largest value of the R of a "Volume R" in a file name
MaxRoman == 21
\* how many times work_link.py is run
MaxLinkRuns == 2

(***************************************************************************)
(* Characters and strings                                                  *)
(***************************************************************************)
NL == "\n"
CR == "\r"
TAB == "\t"
SP == " "

\* Python's str.isspace() on the characters of the model's alphabets
IsSpace(c) == c \in {SP, TAB, NL, CR}

\* s[i:] and s[:n] of Python, for 0 <= i, n
Drop(s, n) == IF n >= Len(s) THEN << >> ELSE SubSeq(s, n + 1, Len(s))
Take(s, n) == IF n >= Len(s) THEN s ELSE SubSeq(s, 1, n)

\* s[-n:] of Python for n >= 1
LastN(s, n) == IF n >= Len(s) THEN s ELSE SubSeq(s, Len(s) - n + 1, Len(s))

RECURSIVE LStrip(_)
LStrip(s) == IF s # << >> /\ IsSpace(Head(s)) THEN LStrip(Tail(s)) ELSE s

RECURSIVE RStrip(_)
RStrip(s) ==
  IF s # << >> /\ IsSpace(s[Len(s)]) THEN RStrip(SubSeq(s, 1, Len(s) - 1)) ELSE s

\* str.strip()
Strip(s) == RStrip(LStrip(s))

(***************************************************************************)
(* normalize_text                                                          *)
(***************************************************************************)
\* raw.replace("\r\n", "\n")
RECURSIVE ReplaceCRLF(_)
ReplaceCRLF(s) ==
  IF s = << >> THEN << >>
  ELSE IF Len(s) >= 2 /\ s[1] = CR /\ s[2] = NL
       THEN <<NL>> \o ReplaceCRLF(Drop(s, 2))
       ELSE <<Head(s)>> \o ReplaceCRLF(Tail(s))

\* .replace("\r", "\n")
ReplaceCR(s) == [i \in 1..Len(s) |-> IF s[i] = CR THEN NL ELSE s[i]]

\* re.sub(r"[^\S\n]+", " ", raw): each run of whitespace other than newline
\* becomes one space
RECURSIVE CollapseHSpace(_)
CollapseHSpace(s) ==
  IF s = << >> THEN << >>
  ELSE IF IsSpace(Head(s)) /\ Head(s) # NL
       THEN IF Len(s) >= 2 /\ IsSpace(s[2]) /\ s[2] # NL
            THEN CollapseHSpace(Tail(s))
            ELSE <<SP>> \o CollapseHSpace(Tail(s))
       ELSE <<Head(s)>> \o CollapseHSpace(Tail(s))

\* length of the run of newlines s starts with
RECURSIVE NLRun(_)
NLRun(s) == IF s # << >> /\ Head(s) = NL THEN 1 + NLRun(Tail(s)) ELSE 0

\* (mutant) runs of newlines are left as they are
CapNewlines_off(s) == s

\* re.sub(r"\n{4,}", "\n\n\n", raw)
RECURSIVE CapNewlines(_)
CapNewlines(s) ==
  IF s = << >> THEN << >>
  ELSE LET n == NLRun(s) IN
       IF n >= 4 THEN <<NL, NL, NL>> \o CapNewlines(Drop(s, n))
       ELSE IF n >= 1 THEN Take(s, n) \o CapNewlines(Drop(s, n))
       ELSE <<Head(s)>> \o CapNewlines(Tail(s))

\* (mutant) the text is not stripped before the newline is appended
normalize_text_no_strip(raw) ==
  CapNewlines(CollapseHSpace(ReplaceCR(ReplaceCRLF(raw)))) \o <<NL>>

normalize_text(raw) ==
  Strip(CapNewlines(CollapseHSpace(ReplaceCR(ReplaceCRLF(raw))))) \o <<NL>>

(***************************************************************************)
(* chunk_paragraph_aware                                                   *)
(***************************************************************************)
\* length of the whitespace run s starts with
RECURSIVE WsRun(_)
WsRun(s) == IF s # << >> /\ IsSpace(Head(s)) THEN 1 + WsRun(Tail(s)) ELSE 0

\* the largest index <= n of a newline in s, 0 when there is none
RECURSIVE LastNL(_, _)
LastNL(s, n) == IF n = 0 THEN 0 ELSE IF s[n] = NL THEN n ELSE LastNL(s, n - 1)

\* re.split(r"\n\s*\n", text): leftmost matches; \s* is greedy, so a match
\* that starts at a newline runs to the last newline of the whitespace run
\* that follows it.  cur is the piece being collected.
RECURSIVE SplitParas(_, _)
SplitParas(s, cur) ==
  IF s = << >> THEN <<cur>>
  ELSE IF Head(s) = NL /\ LastNL(s, WsRun(s)) >= 2
       THEN <<cur>> \o SplitParas(Drop(s, LastNL(s, WsRun(s))), << >>)
       ELSE SplitParas(Tail(s), Append(cur, Head(s)))

\* (mutant) the hard cut advances by target_chars: the slices do not overlap
RECURSIVE HardCut_no_overlap(_, _, _, _, _)
HardCut_no_overlap(big, start, T, O, chunks) ==
  IF Len(big) > T
  THEN LET part == Take(big, T)
           end == start + Len(part)
       IN HardCut_no_overlap(Drop(big, T), end, T, O,
                             Append(chunks, [text |-> part, s |-> start, e |-> end]))
  ELSE [chunks |-> chunks, buf |-> big, start |-> start]

\* the hard cut of one paragraph longer than target_chars (the while loop):
\* the emitted slices, the remainder and the start offset of the remainder
RECURSIVE HardCut(_, _, _, _, _)
HardCut(big, start, T, O, chunks) ==
  IF Len(big) > T
  THEN LET part == Take(big, T)
           end == start + Len(part)
       IN HardCut(Drop(big, T - O), end - O, T, O,
                  Append(chunks, [text |-> part, s |-> start, e |-> end]))
  ELSE [chunks |-> chunks, buf |-> big, start |-> start]

\* (mutant) the tail is buf[-overlap_chars:] also when overlap_chars is 0,
\* where the slice is the whole buffer
ParaStep_tail_unguarded(st, p0, T, O) ==
  LET p == Strip(p0)
      buf == st.buf
      candidate == buf \o (IF buf # << >> THEN <<NL, NL>> ELSE << >>) \o p
  IN IF p = << >> THEN st
     ELSE IF Len(candidate) <= T THEN [st EXCEPT !.buf = candidate]
     ELSE IF buf # << >>
          THEN LET end == st.start + Len(buf)
                   tail == IF Len(buf) > O
                           THEN (IF O = 0 THEN buf ELSE LastN(buf, O))
                           ELSE << >>
               IN [chunks |-> Append(st.chunks,
                                     [text |-> buf, s |-> st.start, e |-> end]),
                   buf |-> Strip(tail \o (IF tail # << >> THEN <<NL, NL>> ELSE << >>) \o p),
                   start |-> end - Len(tail)]
          ELSE HardCut(p, st.start, T, O, st.chunks)

\* one iteration of "for p in paras", on the loop state st = [chunks, buf, start]
ParaStep(st, p0, T, O) ==
  LET p == Strip(p0)
      buf == st.buf
      candidate == buf \o (IF buf # << >> THEN <<NL, NL>> ELSE << >>) \o p
  IN IF p = << >> THEN st
     ELSE IF Len(candidate) <= T THEN [st EXCEPT !.buf = candidate]
     ELSE IF buf # << >>
          THEN LET end == st.start + Len(buf)
                   tail == IF O # 0 /\ Len(buf) > O THEN LastN(buf, O) ELSE << >>
               IN [chunks |-> Append(st.chunks,
                                     [text |-> buf, s |-> st.start, e |-> end]),
                   buf |-> Strip(tail \o (IF tail # << >> THEN <<NL, NL>> ELSE << >>) \o p),
                   start |-> end - Len(tail)]
          ELSE HardCut(p, st.start, T, O, st.chunks)

RECURSIVE ParaLoop(_, _, _, _)
ParaLoop(st, paras, T, O) ==
  IF paras = << >> THEN st
  ELSE ParaLoop(ParaStep(st, Head(paras), T, O), Tail(paras), T, O)

\* (mutant) the running offset starts at 1
chunk_paragraph_aware_from_one(text, T, O) ==
  LET st == ParaLoop([chunks |-> << >>, buf |-> << >>, start |-> 1],
                     SplitParas(text, << >>), T, O)
  IN IF st.buf # << >>
     THEN Append(st.chunks,
                 [text |-> st.buf, s |-> st.start, e |-> st.start + Len(st.buf)])
     ELSE st.chunks

\* the sequence of (text, start, end) the chunker returns
chunk_paragraph_aware(text, T, O) ==
  LET st == ParaLoop([chunks |-> << >>, buf |-> << >>, start |-> 0],
                     SplitParas(text, << >>), T, O)
  IN IF st.buf # << >>
     THEN Append(st.chunks,
                 [text |-> st.buf, s |-> st.start, e |-> st.start + Len(st.buf)])
     ELSE st.chunks

(***************************************************************************)
(* The store: tables docs and chunks, the index chunks_fts, its triggers   *)
(***************************************************************************)
\* doc_id_for: sha1 of the relative path
doc_id_for(rel_path) == <<"sha1", rel_path>>

\* sha256_text
sha256_text(s) == <<"sha256", s>>

\* (mutant) the chunk_id is the hash of the doc_id alone
chunk_id_for_doc_only(doc_id, idx, s, e) == <<"sha1", doc_id>>

\* the chunk_id the ingestion computes: sha1 of "doc_id:idx:s:e"
chunk_id_for(doc_id, idx, s, e) == <<"sha1", doc_id, idx, s, e>>

\* a table is the set of its rows; docs and chunks have a primary key;
\* chunks_fts has none and is a bag of rows (chunk_id, doc_id, text)
EmptyDb == [docs |-> {}, chunks |-> {}, fts |-> EmptyBag]

\* trigger chunks_ai: AFTER INSERT ON chunks
chunks_ai(fts, new) ==
  fts (+) SetToBag({[chunk_id |-> new.chunk_id, doc_id |-> new.doc_id,
                     text |-> new.text]})

\* (mutant) the delete trigger leaves the index as it is
chunks_ad_none(fts, old) == fts

\* trigger chunks_ad: AFTER DELETE ON chunks
chunks_ad(fts, old) ==
  LET keep == {r \in DOMAIN fts : r.chunk_id # old.chunk_id}
  IN [r \in keep |-> fts[r]]

\* trigger chunks_au: AFTER UPDATE ON chunks
chunks_au(fts, new) ==
  LET upd(r) == IF r.chunk_id = new.chunk_id THEN [r EXCEPT !.text = new.text]
                ELSE r
      rows == {upd(r) : r \in DOMAIN fts}
      Sum(S) == LET RECURSIVE sum(_)
                    sum(X) == IF X = {} THEN 0
                              ELSE LET x == CHOOSE x \in X : TRUE
                                   IN fts[x] + sum(X \ {x})
                IN sum(S)
  IN [q \in rows |-> Sum({r \in DOMAIN fts : upd(r) = q})]

\* INSERT INTO chunks ... : refused when the primary key exists
InsertRefused(d, row) == \E c \in d.chunks : c.chunk_id = row.chunk_id

InsertChunkRow(d, row) ==
  [d EXCEPT !.chunks = @ \cup {row}, !.fts = chunks_ai(@, row)]

\* DELETE FROM chunks WHERE ... : the trigger runs once for each deleted row
RECURSIVE DeleteRows(_, _)
DeleteRows(d, rows) ==
  IF rows = {} THEN d
  ELSE LET r == CHOOSE r \in rows : TRUE
       IN DeleteRows([d EXCEPT !.chunks = @ \ {r}, !.fts = chunks_ad(@, r)],
                     rows \ {r})

\* (mutant) the delete matches the chunk_id column against the doc_id
delete_chunks_by_chunk_id(d, doc_id) ==
  DeleteRows(d, {c \in d.chunks : c.chunk_id = doc_id})

\* delete_chunks_for_doc
delete_chunks_for_doc(d, doc_id) ==
  DeleteRows(d, {c \in d.chunks : c.doc_id = doc_id})

\* UPDATE chunks SET ... WHERE chunk_id = old.chunk_id
UpdateRefused(d, old, new) ==
  \E c \in d.chunks \ {old} : c.chunk_id = new.chunk_id

UpdateChunkRow(d, old, new) ==
  [d EXCEPT !.chunks = (@ \ {old}) \cup {new}, !.fts = chunks_au(@, new)]

(***************************************************************************)
(* Bare SQL statements on chunks, each in its own transaction              *)
(***************************************************************************)
PathA == <<"A.pdf">>
PathB == <<"b Vol 2.pdf">>
PathC == <<"c.txt">>
PdfPaths == {PathA, PathB}
TxtPaths == {PathC}
Paths == PdfPaths \cup TxtPaths
DocIds == {doc_id_for(p) : p \in Paths}

SyncDocs == {doc_id_for(PathA), doc_id_for(PathB)}
SyncTexts == {<<"a">>, <<"b">>}
SyncIds == {chunk_id_for(d, i, 0, 1) : d \in SyncDocs, i \in 0..MaxSyncIdx}

\* the row the ingestion writes for chunk idx = (text, s, e) of a document
ChunkRow(doc_id, idx, c) ==
  [chunk_id |-> chunk_id_for(doc_id, idx, c.s, c.e), doc_id |-> doc_id,
   chunk_idx |-> idx, start_char |-> c.s, end_char |-> c.e, text |-> c.text]

NoCur == [rel |-> << >>, doc_id |-> << >>, size |-> 0, mtime |-> 0,
          norm |-> << >>, chunks |-> << >>, idx |-> 0]
IngIdle == [run |-> "idle", todo |-> << >>, pc |-> "next", cur |-> NoCur,
            done |-> 0, failed |-> 0, seen |-> 0, log |-> << >>]
Event(kind, doc_id, old) == [kind |-> kind, doc_id |-> doc_id, old |-> old]
NoEvent == Event("none", << >>, {})
\* the kind of the event that ends a run of this kind
EndOf(run) == IF run = "pdf" THEN "end pdf" ELSE "end txt"

\* the command line of ask_corpus.py with every option at its default
NoArgs == [question |-> << >>, k |-> 1, ext |-> << >>, like |-> << >>,
           path_eq |-> << >>, work_id |-> << >>, work_like |-> << >>,
           fts |-> << >>]
AskIdle == [pc |-> "idle", args |-> NoArgs, tried |-> << >>, calls |-> << >>,
            chunk_ids |-> << >>, out |-> "none"]

\* work_link.py not started, on an empty docs table
WlIdle == [pc |-> "idle", docs |-> << >>, rows |-> << >>, updated |-> 0,
           runs |-> 0, vol |-> << >>, work_title |-> << >>]

\* no ingestion run was interrupted
NoHist == [crashes |-> 0, pc |-> "none", run |-> "idle"]

FsIdle ==
  /\ files = [p \in Paths |-> [text |-> << >>, bad |-> FALSE, mtime |-> 0,
                                gone |-> FALSE]]
  /\ clock = 0
  /\ artifacts = << >>

InitSync ==
  /\ db = EmptyDb /\ committed = EmptyDb
  /\ FsIdle /\ ing = IngIdle /\ ev = NoEvent /\ ask = AskIdle /\ hist = NoHist /\ wl = WlIdle
  /\ tx_pc = "raw" /\ tx_raw = << >> /\ tx_norm = << >>
  /\ tx_T = 1 /\ tx_O = 0 /\ tx_chunks = << >> /\ tx_frame = NoFrame

\* INSERT INTO chunks VALUES (...)
SqlInsert ==
  \E d \in SyncDocs, i \in 0..MaxSyncIdx, t \in SyncTexts :
    LET row == ChunkRow(d, i, [text |-> t, s |-> 0, e |-> 1]) IN
    /\ BagCardinality(db.fts) < MaxIndexRows
    /\ ~InsertRefused(db, row)
    /\ db' = InsertChunkRow(db, row)
    /\ committed' = db'
    /\ ev' = Event("insert", d, {})
    /\ UNCHANGED <<ask, wl, hist, txVars, fsVars, ing>>

\* DELETE FROM chunks WHERE doc_id = ?
SqlDelete ==
  \E d \in SyncDocs :
    /\ db' = delete_chunks_for_doc(db, d)
    /\ committed' = db'
    /\ ev' = Event("delete", d, {})
    /\ UNCHANGED <<ask, wl, hist, txVars, fsVars, ing>>

\* UPDATE chunks SET chunk_id = ?, doc_id = ?, text = ? WHERE chunk_id = ?
\* (any of the three may keep its value)
SqlUpdate ==
  \E old \in db.chunks, id \in SyncIds, d \in SyncDocs, t \in SyncTexts :
    LET new == [old EXCEPT !.chunk_id = id, !.doc_id = d, !.text = t] IN
    /\ new # old
    /\ ~UpdateRefused(db, old, new)
    /\ db' = UpdateChunkRow(db, old, new)
    /\ committed' = db'
    /\ ev' = Event("update", d, {})
    /\ UNCHANGED <<ask, wl, hist, txVars, fsVars, ing>>

NextSync == SqlInsert \/ SqlDelete \/ SqlUpdate

SpecSync == InitSync /\ [][NextSync]_vars

\* the index rows of a set of chunk rows
IndexRows(rows) ==
  {[chunk_id |-> c.chunk_id, doc_id |-> c.doc_id, text |-> c.text] : c \in rows}

\* the index holds, once each, the (chunk_id, doc_id, text) of the chunk rows
Mirrors(d) == d.fts = SetToBag(IndexRows(d.chunks))

\* C3: after any sequence of chunk inserts, updates and deletes the index
\* mirrors the chunk table: the same chunk_ids, each once, with the same
\* doc_id and text.
C3_IndexMirror == Mirrors(db) /\ Mirrors(committed)

(***************************************************************************)
(* Batch ingestion: main of corpus_ingest_pdf.py and corpus_ingest_txt.py  *)
(***************************************************************************)
\* what a source file may hold: the text its extraction yields, or (a PDF)
\* bad, which makes pdftotext fail
Good(t) == [text |-> t, bad |-> FALSE]
Text3 == <<"a", "a", NL, NL, "b", NL, NL, "b">>
Text2 == <<"a", "a", NL, NL, "b">>
Text2x == <<"a", NL, NL, "b">>
Text1 == <<"a", "b">>
TextShort == <<"a">>
TxtContents == {Good(Text2), Good(Text2x), Good(TextShort)}
PdfContents == TxtContents \cup {[text |-> << >>, bad |-> TRUE]}

InitialFiles ==
  (PathA :> [text |-> Text3, bad |-> FALSE, mtime |-> 0, gone |-> FALSE]) @@
  (PathB :> [text |-> Text2, bad |-> FALSE, mtime |-> 0, gone |-> FALSE]) @@
  (PathC :> [text |-> Text1, bad |-> FALSE, mtime |-> 0, gone |-> FALSE])

\* os.stat: st_size, st_mtime_ns
StatSize(f) == Len(f.text)
StatMtime(f) == f.mtime

\* pdftotext_extract raises on a bad file; read_text(errors="ignore") never does
ExtractFails(run, f) == run = "pdf" /\ f.bad

\* the --min-text test of the PDF ingestion; the text ingestion has none
TooShort(run, norm) == run = "pdf" /\ Len(Strip(norm)) < MinText

\* the rows of docs with this doc_id (at most one: doc_id is the primary key)
DocRows(d, doc_id) == {r \in d.docs : r.doc_id = doc_id}

\* (mutant) the stored mtime is compared with the size
SkipUnchanged_wrong_column(rows, size, mtime, normExists) ==
  /\ rows # {}
  /\ \A r \in rows : r.size_bytes = size /\ r.mtime_ns = size
  /\ normExists

\* "if row and row[0] == st.st_size and row[1] == st.st_mtime_ns and
\*  os.path.exists(norm_path)"
SkipUnchanged(rows, size, mtime, normExists) ==
  /\ rows # {}
  /\ \A r \in rows : r.size_bytes = size /\ r.mtime_ns = mtime
  /\ normExists

\* (mutant) a plain INSERT, without the ON CONFLICT(doc_id) DO UPDATE clause
upsert_doc_insert(d, doc) ==
  [d EXCEPT !.docs = @ \cup {[doc_id |-> doc.doc_id, rel_path |-> doc.rel_path,
                               ext |-> doc.ext, size_bytes |-> doc.size_bytes,
                               mtime_ns |-> doc.mtime_ns,
                               norm_hash |-> doc.norm_hash, work_id |-> << >>,
                               work_title |-> << >>, vol_idx |-> << >>,
                               vol_total |-> << >>]}]

\* (mutant) INSERT OR REPLACE: the row is written anew
upsert_doc_replace(d, doc) ==
  [d EXCEPT !.docs = (@ \ DocRows(d, doc.doc_id)) \cup
      {[doc_id |-> doc.doc_id, rel_path |-> doc.rel_path, ext |-> doc.ext,
        size_bytes |-> doc.size_bytes, mtime_ns |-> doc.mtime_ns,
        norm_hash |-> doc.norm_hash, work_id |-> << >>, work_title |-> << >>,
        vol_idx |-> << >>, vol_total |-> << >>]}]

\* upsert_doc: INSERT ... ON CONFLICT(doc_id) DO UPDATE SET the listed columns;
\* the other columns of an existing row (work_id, work_title, vol_idx,
\* vol_total) keep their value
upsert_doc(d, doc) ==
  LET old == DocRows(d, doc.doc_id)
      row == IF old = {}
             THEN [doc_id |-> doc.doc_id, rel_path |-> doc.rel_path, ext |-> doc.ext,
                   size_bytes |-> doc.size_bytes, mtime_ns |-> doc.mtime_ns,
                   norm_hash |-> doc.norm_hash, work_id |-> << >>,
                   work_title |-> << >>, vol_idx |-> << >>, vol_total |-> << >>]
             ELSE LET o == CHOOSE o \in old : TRUE
                  IN [o EXCEPT !.rel_path = doc.rel_path, !.ext = doc.ext,
                               !.size_bytes = doc.size_bytes,
                               !.mtime_ns = doc.mtime_ns,
                               !.norm_hash = doc.norm_hash]
  IN [d EXCEPT !.docs = (@ \ old) \cup {row}]

\* the orders in which rglob may yield a set of paths
Orders(S) == {q \in [1..Cardinality(S) -> S] : \A p \in S : \E i \in DOMAIN q : q[i] = p}

InitIngest ==
  /\ db = EmptyDb /\ committed = EmptyDb
  /\ files = InitialFiles /\ clock = 0 /\ artifacts = << >>
  /\ ing = IngIdle /\ ev = NoEvent /\ ask = AskIdle /\ hist = NoHist /\ wl = WlIdle
  /\ tx_pc = "raw" /\ tx_raw = << >> /\ tx_norm = << >>
  /\ tx_T = 1 /\ tx_O = 0 /\ tx_chunks = << >> /\ tx_frame = NoFrame

\* a source file is rewritten, or written again after it was removed (between
\* runs)
EditFile ==
  /\ ing.run = "idle"
  /\ clock < MaxEdits
  /\ \E p \in Paths :
       \E c \in (IF p \in PdfPaths THEN PdfContents ELSE TxtContents) :
         /\ [text |-> files[p].text, bad |-> files[p].bad] # c \/ files[p].gone
         /\ files' = [files EXCEPT ![p] = [text |-> c.text, bad |-> c.bad,
                                           mtime |-> clock + 1, gone |-> FALSE]]
  /\ clock' = clock + 1
  /\ ev' = NoEvent
  /\ UNCHANGED <<ask, wl, hist, txVars, dbVars, artifacts, ing>>

\* a source file is removed (between runs)
RemoveFile ==
  /\ ing.run = "idle"
  /\ clock < MaxEdits
  /\ \E p \in Paths :
       /\ ~files[p].gone
       /\ files' = [files EXCEPT ![p].gone = TRUE]
  /\ clock' = clock + 1
  /\ ev' = NoEvent
  /\ UNCHANGED <<ask, wl, hist, txVars, dbVars, artifacts, ing>>

\* a normalized-text file is removed (between runs)
RemoveArtifact ==
  /\ ing.run = "idle"
  /\ clock < MaxEdits
  /\ \E d \in DOMAIN artifacts :
       artifacts' = [x \in (DOMAIN artifacts) \ {d} |-> artifacts[x]]
  /\ clock' = clock + 1
  /\ ev' = NoEvent
  /\ UNCHANGED <<ask, wl, hist, txVars, dbVars, files, ing>>

\* main up to the loop: connect, list the files
StartRun ==
  /\ ing.run = "idle"
  /\ \E run \in {"pdf", "txt"} :
       \E order \in Orders({p \in (IF run = "pdf" THEN PdfPaths ELSE TxtPaths) :
                                 ~files[p].gone}) :
         ing' = [IngIdle EXCEPT !.run = run, !.todo = order]
  /\ db' = committed
  /\ ev' = NoEvent
  /\ UNCHANGED <<ask, wl, hist, txVars, committed, fsVars>>

\* the head of the loop body: stat, look the row up, skip when unchanged
Scan ==
  /\ ing.run # "idle" /\ ing.pc = "next" /\ ing.todo # << >>
  /\ LET rel == Head(ing.todo)
         doc_id == doc_id_for(rel)
         size == StatSize(files[rel])
         mtime == StatMtime(files[rel])
         seen == IF ing.run = "pdf" THEN ing.seen + 1 ELSE ing.seen
     IN IF SkipUnchanged(DocRows(db, doc_id), size, mtime, doc_id \in DOMAIN artifacts)
        THEN /\ ing' = [ing EXCEPT !.todo = Tail(@), !.done = @ + 1, !.seen = seen]
             /\ ev' = Event("skip", doc_id, {})
        ELSE /\ ing' = [ing EXCEPT !.todo = Tail(@), !.seen = seen, !.pc = "extract",
                                   !.cur = [NoCur EXCEPT !.rel = rel, !.doc_id = doc_id,
                                                         !.size = size, !.mtime = mtime]]
             /\ ev' = Event("scan", doc_id, {})
  /\ UNCHANGED <<ask, wl, hist, txVars, dbVars, fsVars>>

\* an exception in the loop body.  The PDF ingestion catches it: it counts and
\* logs the failure and goes on with the next file, on the same connection and
\* in the same transaction.  The text ingestion has no handler: the process
\* ends, and with it the open transaction.
Raise(reason) ==
  IF ing.run = "pdf"
  THEN /\ ing' = [ing EXCEPT !.failed = @ + 1, !.pc = "next",
                             !.log = Append(@, <<ing.cur.rel, reason>>)]
       /\ ev' = Event("failed", ing.cur.doc_id, {})
       /\ UNCHANGED <<ask, wl, hist, txVars, dbVars, fsVars>>
  ELSE /\ ing' = IngIdle
       /\ db' = committed
       /\ ev' = Event("abort", ing.cur.doc_id, {})
       /\ UNCHANGED <<ask, wl, hist, txVars, committed, fsVars>>

\* extract, normalize, test the length, write the normalized text
Extract ==
  /\ ing.run # "idle" /\ ing.pc = "extract"
  /\ LET f == files[ing.cur.rel]
         norm == normalize_text(f.text)
     IN IF ExtractFails(ing.run, f) THEN Raise("pdftotext failed")
        ELSE IF TooShort(ing.run, norm) THEN Raise("extracted text too short")
        ELSE /\ artifacts' = [x \in (DOMAIN artifacts) \cup {ing.cur.doc_id} |->
                                IF x = ing.cur.doc_id THEN norm ELSE artifacts[x]]
             /\ ing' = [ing EXCEPT !.pc = "upsert", !.cur.norm = norm]
             /\ ev' = Event("extract", ing.cur.doc_id, {})
             /\ UNCHANGED <<ask, wl, hist, txVars, dbVars, files, clock>>

UpsertDoc ==
  /\ ing.run # "idle" /\ ing.pc = "upsert"
  /\ db' = upsert_doc(db, [doc_id |-> ing.cur.doc_id, rel_path |-> ing.cur.rel,
                           ext |-> ing.run, size_bytes |-> ing.cur.size,
                           mtime_ns |-> ing.cur.mtime,
                           norm_hash |-> sha256_text(ing.cur.norm)])
  /\ ing' = [ing EXCEPT !.pc = "delete"]
  /\ ev' = Event("upsert", ing.cur.doc_id, {})
  /\ UNCHANGED <<ask, wl, hist, txVars, committed, fsVars>>

\* delete_chunks_for_doc, then chunk_paragraph_aware(norm)
DeleteChunks ==
  /\ ing.run # "idle" /\ ing.pc = "delete"
  /\ db' = delete_chunks_for_doc(db, ing.cur.doc_id)
  /\ ing' = [ing EXCEPT !.pc = "insert", !.cur.idx = 0,
                        !.cur.chunks = chunk_paragraph_aware(ing.cur.norm,
                                                             TargetChars, OverlapChars)]
  /\ ev' = Event("delete", ing.cur.doc_id, {})
  /\ UNCHANGED <<ask, wl, hist, txVars, committed, fsVars>>

\* one iteration of "for idx, (ct, s, e) in enumerate(chunks)"
InsertChunk ==
  /\ ing.run # "idle" /\ ing.pc = "insert" /\ ing.cur.idx < Len(ing.cur.chunks)
  /\ LET row == ChunkRow(ing.cur.doc_id, ing.cur.idx, ing.cur.chunks[ing.cur.idx + 1])
     IN IF InsertRefused(db, row) THEN Raise("UNIQUE constraint failed")
        ELSE /\ db' = InsertChunkRow(db, row)
             /\ ing' = [ing EXCEPT !.cur.idx = @ + 1]
             /\ ev' = Event("insert", ing.cur.doc_id, {})
             /\ UNCHANGED <<ask, wl, hist, txVars, committed, fsVars>>

\* con.commit(); done += 1
Commit ==
  /\ ing.run # "idle" /\ ing.pc = "insert" /\ ing.cur.idx = Len(ing.cur.chunks)
  /\ committed' = db
  /\ ing' = [ing EXCEPT !.pc = "next", !.done = @ + 1]
  /\ ev' = Event("commit", ing.cur.doc_id,
                 {c \in committed.chunks : c.doc_id = ing.cur.doc_id})
  /\ UNCHANGED <<ask, wl, hist, txVars, db, fsVars>>

\* a statement of the loop body (the upsert, the delete, an insert, the commit)
\* fails in the database: locked, full, I/O error
DbFault ==
  /\ ing.run # "idle" /\ ing.pc \in {"upsert", "delete", "insert"}
  /\ Raise("database error")

\* the end of main: con.close() without a commit, the counts are printed and
\* the process ends
EndRun ==
  /\ ing.run # "idle" /\ ing.pc = "next" /\ ing.todo = << >>
  /\ ing' = IngIdle
  /\ db' = committed
  /\ ev' = Event(EndOf(ing.run), << >>, {})
  /\ UNCHANGED <<ask, wl, hist, txVars, committed, fsVars>>

Next ==
  \/ EditFile \/ RemoveFile \/ RemoveArtifact \/ StartRun \/ Scan \/ Extract \/ UpsertDoc
  \/ DeleteChunks \/ InsertChunk \/ Commit \/ DbFault \/ EndRun

Spec == InitIngest /\ [][Next]_vars

\* the states write_text(norm) can leave behind when the process is killed
\* during it: the file as it was, or created or truncated by open() and
\* holding a proper prefix of the text
TornWrites(arts, doc_id, norm) ==
  {arts} \cup
  { [x \in (DOMAIN arts) \cup {doc_id} |->
       IF x = doc_id THEN SubSeq(norm, 1, k) ELSE arts[x]] : k \in 0..(Len(norm) - 1) }

\* the process of an ingestion run is killed, at any point of the loop: the
\* open transaction is lost, the files written so far stay
Crash ==
  /\ ing.run # "idle"
  /\ hist.crashes < MaxCrashes
  /\ ing' = IngIdle
  /\ db' = committed
  /\ ev' = Event("crash", IF ing.pc = "next" THEN << >> ELSE ing.cur.doc_id, {})
  /\ hist' = [crashes |-> hist.crashes + 1, pc |-> ing.pc, run |-> ing.run]
  /\ LET f == files[ing.cur.rel]
         norm == normalize_text(f.text)
     IN IF ing.pc = "extract" /\ ~ExtractFails(ing.run, f) /\ ~TooShort(ing.run, norm)
        THEN artifacts' \in TornWrites(artifacts, ing.cur.doc_id, norm)
        ELSE artifacts' = artifacts
  /\ UNCHANGED <<ask, wl, txVars, committed, files, clock>>

\* ingestion runs that may be killed, on a database that raises no error
NextCrash ==
  \/ EditFile \/ RemoveFile \/ RemoveArtifact \/ StartRun \/ Scan \/ Extract \/ UpsertDoc
  \/ DeleteChunks \/ InsertChunk \/ Commit \/ EndRun \/ Crash

SpecCrash == InitIngest /\ [][NextCrash]_vars

(***************************************************************************)
(* Properties of the ingestion                                             *)
(***************************************************************************)
PathOf(doc_id) == CHOOSE p \in Paths : doc_id_for(p) = doc_id

ChunksOfDoc(d, doc_id) == {c \in d.chunks : c.doc_id = doc_id}

\* the index entries with this doc_id, as a bag
FtsOfDoc(d, doc_id) ==
  [r \in {r \in DOMAIN d.fts : r.doc_id = doc_id} |-> d.fts[r]]

\* how many index entries carry this chunk_id
FtsCount(d, chunk_id) ==
  BagCardinality([r \in {r \in DOMAIN d.fts : r.chunk_id = chunk_id} |-> d.fts[r]])

\* the chunk rows of a complete ingestion of a document with this normalized text
FullChunkRows(doc_id, norm) ==
  LET cs == chunk_paragraph_aware(norm, TargetChars, OverlapChars)
  IN {ChunkRow(doc_id, i - 1, cs[i]) : i \in 1..Len(cs)}

\* the docs row of the file's path records the file's size and mtime, and the
\* normalized text of the document exists
StoredStatMatches(p) ==
  /\ \E r \in db.docs : /\ r.doc_id = doc_id_for(p)
                        /\ r.size_bytes = Len(files[p].text)
                        /\ r.mtime_ns = files[p].mtime
  /\ doc_id_for(p) \in DOMAIN artifacts

\* C1: the loop body on a file whose size and mtime equal the stored row and
\* whose normalized text exists writes nothing (docs, chunks, index, the
\* normalized text, committed or not) and counts the file as done.
C1_SkipWritesNothing ==
  [][ ( /\ ing.run # "idle" /\ ing.pc = "next" /\ ing.todo # << >>
        /\ StoredStatMatches(Head(ing.todo)) )
      => ( /\ db' = db /\ committed' = committed /\ artifacts' = artifacts
           /\ ing'.pc = "next" /\ ing'.todo = Tail(ing.todo)
           /\ ing'.done = ing.done + 1 /\ ing'.failed = ing.failed ) ]_vars

\* an unchanged document that has chunks was just skipped
C1_Witness ==
  /\ ev.kind = "skip"
  /\ ChunksOfDoc(db, ev.doc_id) # {}
  /\ ing.done >= 1

\* C2: whatever fails, each committed state holds for every document either
\* the chunk set committed before or the complete chunk set of the document's
\* current text.
C2_AtomicRefresh ==
  [][ \A p \in Paths :
        LET old == ChunksOfDoc(committed, doc_id_for(p))
            new == ChunksOfDoc(committed', doc_id_for(p))
        IN \/ new = old
           \/ new = FullChunkRows(doc_id_for(p), normalize_text(files[p].text)) ]_vars

\* C4 as claimed: after the commit of a re-ingestion that changed the chunks of
\* a document, the index holds exactly m entries for it and none of the
\* chunk_ids it had before, nor does the chunk table.
C4_NoOldChunkId ==
  LET d == ev.doc_id
      new == FullChunkRows(d, normalize_text(files[PathOf(d)].text))
  IN (ev.kind = "commit" /\ ev.old # {} /\ ev.old # new) =>
       /\ BagCardinality(FtsOfDoc(committed, d)) = Cardinality(new)
       /\ \A c \in ev.old :
            /\ FtsCount(committed, c.chunk_id) = 0
            /\ \A x \in committed.chunks : x.chunk_id # c.chunk_id

\* C4 as amended: the index holds exactly one entry for each of the m chunks of
\* the new version and no other entry for the document; a chunk_id of the
\* old version is still present exactly when the new version has a chunk with
\* the same index and offsets.
C4_IndexAfterReingest ==
  LET d == ev.doc_id
      new == FullChunkRows(d, normalize_text(files[PathOf(d)].text))
  IN (ev.kind = "commit" /\ ev.old # {} /\ ev.old # new) =>
       /\ BagCardinality(FtsOfDoc(committed, d)) = Cardinality(new)
       /\ FtsOfDoc(committed, d) = SetToBag(IndexRows(new))
       /\ \A c \in ev.old :
            LET again == \E x \in new : x.chunk_id = c.chunk_id
            IN /\ FtsCount(committed, c.chunk_id) = (IF again THEN 1 ELSE 0)
               /\ (\E x \in committed.chunks : x.chunk_id = c.chunk_id) <=> again

\* a document of three chunks was re-ingested with two: one old chunk_id is
\* gone, another is there again
C4_Witness ==
  /\ ev.kind = "commit"
  /\ Cardinality(ev.old) = 3
  /\ Cardinality(ChunksOfDoc(committed, ev.doc_id)) = 2
  /\ \E c \in ev.old : FtsCount(committed, c.chunk_id) = 0
  /\ \E c \in ev.old : FtsCount(committed, c.chunk_id) = 1

\* C5: at the commit of an ingestion the chunk rows of the document are the
\* chunker's output on the new normalized text, chunk_idx 0..n-1 in emission
\* order; the docs row holds the file's size, mtime and the hash of the
\* normalized text; a row of the previous version remains only if it is one of
\* the new rows.
C5_FullRebuild ==
  ev.kind = "commit" =>
    LET d == ev.doc_id
        f == files[PathOf(d)]
        norm == normalize_text(f.text)
        cs == chunk_paragraph_aware(norm, TargetChars, OverlapChars)
        rows == ChunksOfDoc(committed, d)
    IN /\ Cardinality(rows) = Len(cs)
       /\ \A i \in 1..Len(cs) :
            \E c \in rows : /\ c.chunk_idx = i - 1
                            /\ c.text = cs[i].text
                            /\ c.start_char = cs[i].s /\ c.end_char = cs[i].e
                            /\ c.chunk_id = chunk_id_for(d, i - 1, cs[i].s, cs[i].e)
       /\ \E r \in committed.docs : /\ r.doc_id = d
                                    /\ r.size_bytes = Len(f.text)
                                    /\ r.mtime_ns = f.mtime
                                    /\ r.norm_hash = sha256_text(norm)
       /\ Cardinality(DocRows(committed, d)) = 1
       /\ d \in DOMAIN artifacts /\ artifacts[d] = norm
       /\ \A c \in ev.old : c \in committed.chunks => c \in FullChunkRows(d, norm)

\* a changed document was rebuilt: rows of the previous version are gone
C5_Witness ==
  /\ ev.kind = "commit"
  /\ ev.old # {}
  /\ \E c \in ev.old : c \notin committed.chunks
  /\ ChunksOfDoc(committed, ev.doc_id) # {}

(***************************************************************************)
(* The text pipeline: normalize one raw text, then chunk it                *)
(***************************************************************************)
SeqsUpTo(S, n) == UNION {[1..k -> S] : k \in 0..n}

TextAlphabet == {"a", "b", SP, NL}

InitText ==
  /\ db = EmptyDb /\ committed = EmptyDb
  /\ FsIdle /\ ing = IngIdle /\ ev = NoEvent /\ ask = AskIdle /\ hist = NoHist /\ wl = WlIdle
  /\ tx_pc = "raw"
  /\ tx_raw \in SeqsUpTo(TextAlphabet, MaxLen)
  /\ tx_norm = << >>
  /\ tx_T = 1
  /\ tx_O = 0
  /\ tx_chunks = << >> /\ tx_frame = NoFrame

Normalize ==
  /\ tx_pc = "raw"
  /\ tx_norm' = normalize_text(tx_raw)
  /\ tx_pc' = "normalized"
  /\ UNCHANGED <<tx_raw, tx_T, tx_O, tx_chunks, tx_frame, dbVars, fsVars, ing, ev, ask, wl, hist>>

Chunk ==
  /\ tx_pc = "normalized"
  /\ \E T \in 1..MaxT : \E O \in 0..(T - 1) :
       /\ tx_T' = T
       /\ tx_O' = O
       /\ tx_chunks' = chunk_paragraph_aware(tx_norm, T, O)
  /\ tx_pc' = "chunked"
  /\ UNCHANGED <<tx_raw, tx_norm, tx_frame, dbVars, fsVars, ing, ev, ask, wl, hist>>

NextText == Normalize \/ Chunk

SpecText == InitText /\ [][NextText]_vars

(***************************************************************************)
(* Properties of the chunker                                               *)
(***************************************************************************)
\* the non-empty stripped paragraphs of a text, in order
RECURSIVE NonEmptyParas(_)
NonEmptyParas(ps) ==
  IF ps = << >> THEN << >>
  ELSE IF Strip(Head(ps)) = << >> THEN NonEmptyParas(Tail(ps))
       ELSE <<Strip(Head(ps))>> \o NonEmptyParas(Tail(ps))

ParasOf(text) == NonEmptyParas(SplitParas(text, << >>))

\* paragraphs joined by blank lines
RECURSIVE JoinParas(_)
JoinParas(ps) ==
  IF ps = << >> THEN << >>
  ELSE IF Len(ps) = 1 THEN Head(ps)
       ELSE Head(ps) \o <<NL, NL>> \o JoinParas(Tail(ps))

\* the chunks concatenated, each after the first without its overlap prefix
\* of length end_offset(previous) - start_offset(this)
RECURSIVE Reassemble(_, _)
Reassemble(cs, prevEnd) ==
  IF cs = << >> THEN << >>
  ELSE LET c == Head(cs)
           k == IF prevEnd > c.s THEN prevEnd - c.s ELSE 0
       IN Drop(c.text, k) \o Reassemble(Tail(cs), c.e)

\* C6: every emitted chunk is at most target_chars long; the slices of a
\* first paragraph longer than target_chars (the hard split), all but the
\* one holding its remainder, are exactly target_chars long.
C6_ChunkBound ==
  tx_pc = "chunked" =>
    /\ \A i \in 1..Len(tx_chunks) : Len(tx_chunks[i].text) <= tx_T
    /\ LET ps == ParasOf(tx_norm) IN
         (ps # << >> /\ Len(ps[1]) > tx_T) =>
            \A i \in 1..Len(tx_chunks) :
               tx_chunks[i].e < Len(ps[1]) => Len(tx_chunks[i].text) = tx_T

\* C7: the chunks without their overlap prefixes, concatenated in order,
\* are the non-empty paragraphs of the text joined by blank lines.
C7_Coverage ==
  tx_pc = "chunked" => Reassemble(tx_chunks, 0) = JoinParas(ParasOf(tx_norm))


(***************************************************************************)
(* The query planner: ask_corpus.py                                        *)
(***************************************************************************)
QUOTE == "\""

\* the characters of questions, queries and chunk texts, by code point
CodeOrder ==
  <<SP, QUOTE, "'", "0", "1", "2", "3", "4", "5", "6", "7", "8", "9", "?",
    "A", "B", "C", "D", "E", "F", "G", "H", "I", "J", "K", "L", "M", "N",
    "O", "P", "Q", "R", "S", "T", "U", "V", "W", "X", "Y", "Z", "_", "a",
    "b", "c", "d", "e", "f", "g", "h", "i", "j", "k", "l", "m", "n", "o",
    "p", "q", "r", "s", "t", "u", "v", "w", "x", "y", "z">>
Code(c) == CHOOSE i \in DOMAIN CodeOrder : CodeOrder[i] = c

UpperChars ==
  <<"A", "B", "C", "D", "E", "F", "G", "H", "I", "J", "K", "L", "M", "N",
    "O", "P", "Q", "R", "S", "T", "U", "V", "W", "X", "Y", "Z">>
LowerChars ==
  <<"a", "b", "c", "d", "e", "f", "g", "h", "i", "j", "k", "l", "m", "n",
    "o", "p", "q", "r", "s", "t", "u", "v", "w", "x", "y", "z">>
Digits == {"0", "1", "2", "3", "4", "5", "6", "7", "8", "9"}

SeqRange(q) == {q[i] : i \in DOMAIN q}

\* str.lower()
LowerChar(c) ==
  IF c \in SeqRange(UpperChars)
  THEN LowerChars[CHOOSE i \in DOMAIN UpperChars : UpperChars[i] = c]
  ELSE c
Lower(s) == [i \in DOMAIN s |-> LowerChar(s[i])]

\* Python's "sub in s"; also: the sequence s has the contiguous run sub
Contains(s, sub) ==
  \E i \in 0..(Len(s) - Len(sub)) : SubSeq(s, i + 1, i + Len(sub)) = sub

\* the characters \w of a Python regular expression
WordChars == SeqRange(UpperChars) \cup SeqRange(LowerChars) \cup Digits \cup {"_"}
\* the token characters of the unicode61 tokenizer
AlnumChars == SeqRange(UpperChars) \cup SeqRange(LowerChars) \cup Digits

\* the maximal runs in s of characters of keep, in order
RECURSIVE Runs(_, _, _)
Runs(s, keep, cur) ==
  LET flush == IF cur = << >> THEN << >> ELSE <<cur>> IN
  IF s = << >> THEN flush
  ELSE IF Head(s) \in keep THEN Runs(Tail(s), keep, Append(cur, Head(s)))
  ELSE flush \o Runs(Tail(s), keep, << >>)

BOILERPLATE ==
  {<<"p", "r", "o", "j", "e", "c", "t", SP, "g", "u", "t", "e", "n", "b", "e", "r", "g">>,
   <<"s", "t", "a", "r", "t", SP, "o", "f", SP, "t", "h", "e", SP, "p", "r", "o", "j", "e", "c", "t", SP, "g", "u", "t", "e", "n", "b", "e", "r", "g", SP, "e", "b", "o", "o", "k">>,
   <<"t", "r", "a", "n", "s", "c", "r", "i", "b", "e", "r", "'", "s", SP, "n", "o", "t", "e">>,
   <<"g", "u", "t", "e", "n", "b", "e", "r", "g", SP, "l", "i", "c", "e", "n", "s", "e">>}

STOPWORDS ==
  {<<"t", "h", "e">>, <<"a">>, <<"a", "n">>, <<"a", "n", "d">>, <<"o", "r">>,
   <<"n", "o", "t">>, <<"t", "o">>, <<"o", "f">>, <<"i", "n">>, <<"o", "n">>,
   <<"f", "o", "r">>, <<"w", "i", "t", "h">>, <<"b", "y">>, <<"a", "s">>,
   <<"a", "t">>, <<"f", "r", "o", "m">>, <<"i", "s">>, <<"a", "r", "e">>,
   <<"w", "a", "s">>, <<"w", "e", "r", "e">>, <<"b", "e">>,
   <<"b", "e", "e", "n">>, <<"b", "e", "i", "n", "g">>,
   <<"d", "o", "e", "s">>, <<"d", "o">>, <<"d", "i", "d">>,
   <<"t", "h", "a", "t">>, <<"t", "h", "i", "s">>,
   <<"t", "h", "e", "s", "e">>, <<"t", "h", "o", "s", "e">>, <<"i", "t">>,
   <<"i", "t", "s">>, <<"h", "e">>, <<"s", "h", "e">>,
   <<"t", "h", "e", "y">>, <<"t", "h", "e", "m">>, <<"h", "i", "s">>,
   <<"h", "e", "r">>, <<"t", "h", "e", "i", "r">>, <<"y", "o", "u">>,
   <<"y", "o", "u", "r">>, <<"i">>, <<"w", "e">>, <<"o", "u", "r">>,
   <<"u", "s">>, <<"w", "h", "a", "t">>, <<"h", "o", "w">>,
   <<"w", "h", "y">>, <<"w", "h", "o">>, <<"w", "h", "o", "m">>,
   <<"w", "h", "i", "c", "h">>, <<"w", "h", "e", "n">>,
   <<"w", "h", "e", "r", "e">>, <<"v", "o", "l", "u", "m", "e">>,
   <<"v", "o", "l", "u", "m", "e", "s">>, <<"b", "o", "o", "k">>,
   <<"b", "o", "o", "k", "s">>, <<"c", "h", "a", "p", "t", "e", "r">>,
   <<"c", "h", "a", "p", "t", "e", "r", "s">>, <<"a", "r", "g", "u", "e">>,
   <<"a", "r", "g", "u", "e", "s">>, <<"c", "o", "n", "n", "e", "c", "t">>,
   <<"c", "o", "n", "n", "e", "c", "t", "i", "o", "n">>,
   <<"s", "u", "m", "m", "a", "r", "i", "z", "e">>,
   <<"s", "u", "m", "m", "a", "r", "y">>,
   <<"d", "o", "c", "t", "r", "i", "n", "e">>,
   <<"r", "e", "l", "a", "t", "e">>, <<"r", "e", "l", "a", "t", "e", "s">>,
   <<"r", "e", "l", "a", "t", "i", "o", "n">>,
   <<"w", "i", "t", "h", "i", "n">>, <<"a", "b", "o", "u", "t">>}

ANCHOR_TERMS ==
  <<<<"p", "r", "e", "d", "e", "s", "t", "i", "n", "a", "t", "i", "o", "n">>,
    <<"p", "r", "e", "d", "e", "s", "t", "i", "n", "a", "t", "e">>,
    <<"e", "l", "e", "c", "t", "i", "o", "n">>, <<"e", "l", "e", "c", "t">>,
    <<"r", "e", "p", "r", "o", "b", "a", "t", "e">>,
    <<"r", "e", "p", "r", "o", "b", "a", "t", "i", "o", "n">>,
    <<"g", "r", "a", "c", "e">>, <<"f", "a", "i", "t", "h">>,
    <<"j", "u", "s", "t", "i", "f", "i", "c", "a", "t", "i", "o", "n">>,
    <<"p", "r", "o", "v", "i", "d", "e", "n", "c", "e">>,
    <<"w", "i", "l", "l">>, <<"f", "r", "e", "e">>,
    <<"r", "e", "s", "p", "o", "n", "s", "i", "b", "i", "l", "i", "t", "y">>,
    <<"s", "i", "n">>, <<"c", "o", "r", "r", "u", "p", "t", "i", "o", "n">>,
    <<"m", "e", "r", "i", "t">>, <<"w", "o", "r", "k", "s">>,
    <<"c", "a", "l", "l", "i", "n", "g">>>>

\* "baseline" of make_anchor_first_query
baseline ==
  <<<<"p", "r", "e", "d", "e", "s", "t", "i", "n", "a", "t", "i", "o", "n">>,
    <<"e", "l", "e", "c", "t", "i", "o", "n">>, <<"g", "r", "a", "c", "e">>,
    <<"j", "u", "s", "t", "i", "f", "i", "c", "a", "t", "i", "o", "n">>,
    <<"f", "a", "i", "t", "h">>>>

\* tokenize_for_fts: lower-case, every run of non-word characters becomes a
\* space (the quote and dash replacements before it yield non-word characters
\* too), split, drop the stopwords
tokenize_keep_stopwords(text) == Runs(Lower(text), WordChars, << >>)

tokenize_for_fts(text) ==
  SelectSeq(Runs(Lower(text), WordChars, << >>), LAMBDA w : w \notin STOPWORDS)

\* fts_term: a token of [a-z0-9_]+ (case ignored) as it is, any other quoted
\* with its quotes doubled
RECURSIVE DoubleQuotes(_)
DoubleQuotes(tok) ==
  IF tok = << >> THEN << >>
  ELSE (IF Head(tok) = QUOTE THEN <<QUOTE, QUOTE>> ELSE <<Head(tok)>>)
       \o DoubleQuotes(Tail(tok))

fts_term(tok) ==
  IF tok # << >> /\ \A i \in DOMAIN tok : tok[i] \in WordChars
  THEN tok
  ELSE <<QUOTE>> \o DoubleQuotes(tok) \o <<QUOTE>>

\* " OR ".join(terms)
OrSep == <<SP, "O", "R", SP>>
RECURSIVE JoinOr(_)
JoinOr(terms) ==
  IF terms = << >> THEN << >>
  ELSE IF Len(terms) = 1 THEN terms[1]
  ELSE terms[1] \o OrSep \o JoinOr(Tail(terms))

\* the order of Python strings
RECURSIVE LexLess(_, _)
LexLess(a, b) ==
  IF a = << >> THEN b # << >>
  ELSE IF b = << >> THEN FALSE
  ELSE IF Head(a) = Head(b) THEN LexLess(Tail(a), Tail(b))
  ELSE Code(Head(a)) < Code(Head(b))

\* the sort key (-len(w), w)
KeyLess(a, b) == Len(a) > Len(b) \/ (Len(a) = Len(b) /\ LexLess(a, b))

\* sorted(set(words), key=lambda w: (-len(w), w))
RECURSIVE SortedByKey(_)
SortedByKey(S) ==
  IF S = {} THEN << >>
  ELSE LET m == CHOOSE m \in S : \A x \in S \ {m} : KeyLess(m, x)
       IN <<m>> \o SortedByKey(S \ {m})

\* max_terms of make_or_fts_query
max_terms == 12

\* the first occurrence of each element, in order
RECURSIVE Dedup(_, _)
Dedup(q, seen) ==
  IF q = << >> THEN << >>
  ELSE IF Head(q) \in seen THEN Dedup(Tail(q), seen)
  ELSE <<Head(q)>> \o Dedup(Tail(q), seen \cup {Head(q)})

\* (mutant) the words are cut to max_terms in the order of the question
make_or_fts_query_unsorted(question) ==
  LET words == tokenize_for_fts(question)
      top == Take(Dedup(words, {}), max_terms)
  IN IF words = << >> THEN << >>
     ELSE JoinOr([i \in DOMAIN top |-> fts_term(top[i])])

make_or_fts_query(question) ==
  LET words == tokenize_for_fts(question)
      top == Take(SortedByKey(SeqRange(words)), max_terms)
  IN IF words = << >> THEN << >>
     ELSE JoinOr([i \in DOMAIN top |-> fts_term(top[i])])

\* (mutant) the baseline is appended whole and nothing is de-duplicated
make_anchor_first_query_no_dedup(question) ==
  LET qlow == Lower(question)
      hits == SelectSeq(ANCHOR_TERMS, LAMBDA t : Contains(qlow, t))
      all == hits \o baseline
  IN JoinOr([i \in DOMAIN all |-> fts_term(all[i])])

make_anchor_first_query(question) ==
  LET qlow == Lower(question)
      hits == SelectSeq(ANCHOR_TERMS, LAMBDA t : Contains(qlow, t))
      all == hits \o SelectSeq(baseline, LAMBDA b : b \notin SeqRange(hits))
      out == Dedup(all, {})
  IN JoinOr([i \in DOMAIN out |-> fts_term(out[i])])

\* the query of the third tier: the first word of the sorted words
single_term(words) == fts_term(SortedByKey(SeqRange(words))[1])

\* the terms of a disjunctive FTS5 query: what stands between the ORs, a
\* quoted term without its quotes (the terms of the model hold no space)
QueryTerms(fts_q) ==
  LET parts == Runs(fts_q, SeqRange(CodeOrder) \ {SP}, << >>)
      unquote(t) == SelectSeq(t, LAMBDA c : c # QUOTE)
  IN {unquote(parts[i]) : i \in {j \in DOMAIN parts : parts[j] # <<"O", "R">>}}

\* chunks_fts MATCH ?: the unicode61 tokenizer folds case and splits at every
\* character that is no letter or digit; a term matches a text that has the
\* term's tokens as consecutive tokens
Match(fts_q, text) ==
  \E t \in QueryTerms(fts_q) :
    LET phrase == Runs(Lower(t), AlnumChars, << >>)
    IN phrase # << >> /\ Contains(Runs(Lower(text), AlnumChars, << >>), phrase)

\* (mutant) the markers are looked for in the text as stored
IsBoilerplate_case_sensitive(text) == \E b \in BOILERPLATE : Contains(text, b)

\* "low = txt.lower(); any(b in low for b in BOILERPLATE)"
IsBoilerplate(text) == \E b \in BOILERPLATE : Contains(Lower(text), b)

\* the docs rows the structural filters keep (an option left empty filters
\* nothing; a NULL work_id or work_title is the empty text and matches none)
MetaOk(doc, a) ==
  /\ a.ext # << >> => doc.ext = Lower(a.ext)
  /\ a.like # << >> => Contains(Lower(doc.rel_path), Lower(a.like))
  /\ a.path_eq # << >> => doc.rel_path = a.path_eq
  /\ a.work_id # << >> => doc.work_id = a.work_id
  /\ a.work_like # << >> => Contains(Lower(doc.work_title), Lower(a.work_like))

\* the index rows the SELECT of search_chunks ranks: those matching the query
\* whose document passes the filters
Hits(d, fts_q, a) ==
  {r \in BagToSet(d.fts) :
     /\ Match(fts_q, r.text)
     /\ \E doc \in d.docs : doc.doc_id = r.doc_id /\ MetaOk(doc, a)}

\* ORDER BY bm25: the score depends on the query and on the statistics of the
\* whole index; every order of the hits is admitted
Ranked(d, fts_q, a) == Orders(Hits(d, fts_q, a))

\* (mutant) no more rows are fetched than are asked for
fetch_n_no_overfetch(k) == k

\* "fetch_n = max(k * 60, k)"
fetch_n(k) == IF k * FetchMult >= k THEN k * FetchMult ELSE k

\* the loop over the fetched rows
RECURSIVE ScanRows(_, _, _, _)
ScanRows(d, rows, k, out) ==
  IF rows = << >> THEN out
  ELSE LET cid == Head(rows).chunk_id
           txt == {c \in d.chunks : c.chunk_id = cid}
       IN IF txt = {} THEN ScanRows(d, Tail(rows), k, out)
          ELSE IF IsBoilerplate((CHOOSE c \in txt : TRUE).text)
               THEN ScanRows(d, Tail(rows), k, out)
          ELSE IF Len(out) + 1 >= k THEN Append(out, cid)
          ELSE ScanRows(d, Tail(rows), k, Append(out, cid))

\* search_chunks, given the rank order of the hits
search_chunks(d, ranked, k) == ScanRows(d, Take(ranked, fetch_n(k)), k, << >>)

\* the record of one call of search_chunks
Call(tag, fts_q, ranked, k) ==
  [tag |-> tag, q |-> fts_q,
   ranked |-> [i \in DOMAIN ranked |-> ranked[i].chunk_id],
   res |-> search_chunks(committed, ranked, k)]

\* the queried corpus: two documents, and some of three chunks
RelA == <<"A", ".", "p", "d", "f">>
RelC == <<"n", "o", "t", "e", "s", "/", "c", ".", "t", "x", "t">>
WorkA == <<"w", "1">>
TitleA == <<"Z", "e", "n", "o", SP, "W", "o", "r", "k", "s">>
QueryDocs ==
  {[doc_id |-> doc_id_for(RelA), rel_path |-> RelA, ext |-> <<"p", "d", "f">>,
    size_bytes |-> 1, mtime_ns |-> 0, norm_hash |-> << >>,
    work_id |-> WorkA, work_title |-> TitleA],
   [doc_id |-> doc_id_for(RelC), rel_path |-> RelC, ext |-> <<"t", "x", "t">>,
    size_bytes |-> 1, mtime_ns |-> 0, norm_hash |-> << >>,
    work_id |-> << >>, work_title |-> << >>]}
TextZeno == <<"Z", "e", "n", "o">>
TextGrace == <<"g", "r", "a", "c", "e", SP, "z", "e", "a", "l">>
TextMarked ==
  <<"P", "r", "o", "j", "e", "c", "t", SP, "G", "u", "t", "e", "n", "b", "e", "r", "g", SP, "Z", "e", "n", "o", SP, "g", "r", "a", "c", "e">>
QueryChunks ==
  {ChunkRow(doc_id_for(RelA), 0, [text |-> TextZeno, s |-> 0, e |-> Len(TextZeno)]),
   ChunkRow(doc_id_for(RelC), 0, [text |-> TextGrace, s |-> 0, e |-> Len(TextGrace)]),
   ChunkRow(doc_id_for(RelA), 1, [text |-> TextMarked, s |-> 0, e |-> Len(TextMarked)])}

\* the command lines of the model
QuestionWords ==
  {<<"T", "h", "e">>,
   <<"W", "h", "a", "t", "?">>,
   <<"G", "r", "a", "c", "e">>,
   <<"s", "i", "n", "f", "u", "l">>,
   <<"Z", "e", "n", "o">>,
   <<"z", "e", "a", "l">>,
   <<"o", "x">>}
RECURSIVE JoinSp(_)
JoinSp(ws) ==
  IF ws = << >> THEN << >>
  ELSE IF Len(ws) = 1 THEN ws[1]
  ELSE ws[1] \o <<SP>> \o JoinSp(Tail(ws))
\* a question of more than max_terms different tokens, one of them twice
LongQuestion ==
  JoinSp(<< <<"o">>, <<"n">>, <<"m">>, <<"l">>, <<"k">>, <<"j">>, <<"h">>,
            <<"g">>, <<"f">>, <<"e">>, <<"d">>, <<"c">>, <<"b">>, <<"z", "z">>,
            <<"B">> >>)
\* " ".join(args.question).strip()
Questions ==
  {Strip(JoinSp(ws)) : ws \in SeqsUpTo(QuestionWords, MaxWords)} \cup {LongQuestion}
FilterSets ==
  {NoArgs,
   [NoArgs EXCEPT !.ext = <<"P", "D", "F">>],
   [NoArgs EXCEPT !.like = <<"N", "o", "t", "e", "s", "/">>],
   [NoArgs EXCEPT !.path_eq = RelA],
   [NoArgs EXCEPT !.work_id = WorkA],
   [NoArgs EXCEPT !.work_like = <<"z", "e", "n", "o">>]}
Overrides ==
  {<< >>,
   <<SP, "z", "e", "n", "o", SP, "O", "R", SP, "g", "r", "a", "c", "e">>}

InitQuery ==
  /\ \E cs \in SUBSET QueryChunks :
       /\ committed = [docs |-> QueryDocs, chunks |-> cs,
                       fts |-> SetToBag(IndexRows(cs))]
       /\ db = committed
  /\ FsIdle /\ ing = IngIdle /\ ev = NoEvent /\ ask = AskIdle /\ hist = NoHist /\ wl = WlIdle
  /\ tx_pc = "raw" /\ tx_raw = << >> /\ tx_norm = << >>
  /\ tx_T = 1 /\ tx_O = 0 /\ tx_chunks = << >> /\ tx_frame = NoFrame

askRest == <<txVars, dbVars, fsVars, ing, ev, wl, hist>>

\* the command line is parsed
Ask ==
  /\ ask.pc = "idle"
  /\ \E q \in Questions, k \in 1..MaxK, f \in FilterSets, o \in Overrides :
       ask' = [AskIdle EXCEPT !.pc = "plan",
                              !.args = [f EXCEPT !.question = q, !.k = k, !.fts = o]]
  /\ UNCHANGED askRest

\* one tier: the query is recorded, and executed when it is not empty
Tier(tag, fts_q, next) ==
  IF fts_q # << >>
  THEN \E ranked \in Ranked(committed, fts_q, ask.args) :
         LET call == Call(tag, fts_q, ranked, ask.args.k) IN
         ask' = [ask EXCEPT !.pc = next, !.tried = Append(@, <<tag, fts_q>>),
                            !.calls = Append(@, call), !.chunk_ids = call.res]
  ELSE ask' = [ask EXCEPT !.pc = next, !.tried = Append(@, <<tag, fts_q>>)]

\* "if args.fts.strip():" the query given with --fts is the only one tried
Override ==
  /\ ask.pc = "plan"
  /\ Strip(ask.args.fts) # << >>
  /\ Tier("--fts", Strip(ask.args.fts), "report")
  /\ UNCHANGED askRest

AnchorTier ==
  /\ ask.pc = "plan"
  /\ Strip(ask.args.fts) = << >>
  /\ Tier("ANCHOR", make_anchor_first_query(ask.args.question), "or")
  /\ UNCHANGED askRest

\* (mutant) the next tier is tried whatever the earlier ones returned
NeedsFallback_always(chunk_ids) == TRUE

\* "if not chunk_ids:"
NeedsFallback(chunk_ids) == chunk_ids = << >>

OrTier ==
  /\ ask.pc = "or"
  /\ IF NeedsFallback(ask.chunk_ids)
     THEN Tier("OR", make_or_fts_query(ask.args.question), "single")
     ELSE ask' = [ask EXCEPT !.pc = "single"]
  /\ UNCHANGED askRest

SingleTier ==
  /\ ask.pc = "single"
  /\ LET words == tokenize_for_fts(ask.args.question) IN
     IF NeedsFallback(ask.chunk_ids) /\ words # << >>
     THEN Tier("SINGLE", single_term(words), "report")
     ELSE ask' = [ask EXCEPT !.pc = "report"]
  /\ UNCHANGED askRest

\* "if not chunk_ids: print('No relevant chunks found.') ... sys.exit(1)";
\* otherwise the sources are fetched and the answer is asked for
Report ==
  /\ ask.pc = "report"
  /\ ask' = [ask EXCEPT !.pc = "done",
                        !.out = IF ask.chunk_ids = << >> THEN "no_results"
                                ELSE "sources"]
  /\ UNCHANGED askRest

NextQuery == Ask \/ Override \/ AnchorTier \/ OrTier \/ SingleTier \/ Report

SpecQuery == InitQuery /\ [][NextQuery]_vars

(***************************************************************************)
(* Properties of the query planner                                         *)
(***************************************************************************)
TierTags == <<"ANCHOR", "OR", "SINGLE">>
TierRank(tag) == CHOOSE i \in DOMAIN TierTags : TierTags[i] = tag
Tags(tried) == [i \in DOMAIN tried |-> tried[i][1]]
IsPrefix(p, q) == Len(p) <= Len(q) /\ SubSeq(q, 1, Len(p)) = p
Tiered == Strip(ask.args.fts) = << >>
LastCall == ask.calls[Len(ask.calls)]

\* C8: the tiers are tried in the order Anchor-first, Broad-OR, Single-term.
\* The attempted (tier, query) pairs are recorded in that order; every
\* executed query is a recorded one; a tier is executed only after every
\* earlier tier returned no chunk; a tier that returns chunks is the last one
\* executed and the last one recorded; and the result handed on is the result
\* of that tier, or empty when no tier returned a chunk.
C8_TierOrder ==
  Tiered =>
    /\ IsPrefix(Tags(ask.tried), TierTags)
    /\ \A i \in DOMAIN ask.calls :
         /\ \E j \in DOMAIN ask.tried :
              ask.tried[j] = <<ask.calls[i].tag, ask.calls[i].q>>
         /\ \A j \in DOMAIN ask.calls :
              i < j => /\ TierRank(ask.calls[i].tag) < TierRank(ask.calls[j].tag)
                       /\ ask.calls[i].res = << >>
         /\ ask.calls[i].res # << >> =>
              /\ i = Len(ask.calls)
              /\ ask.tried[Len(ask.tried)][1] = ask.calls[i].tag
    /\ ask.pc \in {"report", "done"} =>
         ask.chunk_ids = IF ask.calls = << >> THEN << >> ELSE LastCall.res

\* the Anchor tier found nothing, the Broad-OR tier found chunks, and the
\* planner stopped there
C8_Witness ==
  /\ ask.pc = "done" /\ Tiered
  /\ Tags(ask.tried) = <<"ANCHOR", "OR">>
  /\ Len(ask.calls) = 2
  /\ ask.calls[1].res = << >>
  /\ ask.calls[2].res # << >>
  /\ ask.chunk_ids = ask.calls[2].res

\* a question with no anchor term and no token that survives the stopwords
Vacuous(question) ==
  /\ \A i \in DOMAIN ANCHOR_TERMS : ~Contains(Lower(question), ANCHOR_TERMS[i])
  /\ SeqRange(Runs(Lower(question), WordChars, << >>)) \subseteq STOPWORDS

BaselineQuery == JoinOr(baseline)

\* C9 (as claimed): for a question with no anchor term and no token surviving
\* the stopwords the planner reports no results, and the attempted queries it
\* lists are those of all three tiers.
C9_AllThreeTiers ==
  (ask.pc = "done" /\ Tiered /\ Vacuous(ask.args.question)) =>
    /\ ask.out = "no_results"
    /\ Tags(ask.tried) = TierTags

\* C9 (amended): for such a question the planner executes one query only, the
\* Anchor tier's, which is the baseline terms.  When it returns no chunk the
\* planner reports no results and lists two attempts, the Anchor query and the
\* empty Broad-OR query; the Single-term tier is not listed.  When it returns
\* chunks they are the result and the Anchor query is the only attempt.
C9_VacuousQuestion ==
  (ask.pc = "done" /\ Tiered /\ Vacuous(ask.args.question)) =>
    /\ Len(ask.calls) = 1
    /\ ask.calls[1].tag = "ANCHOR"
    /\ ask.calls[1].q = BaselineQuery
    /\ IF ask.calls[1].res = << >>
       THEN /\ ask.out = "no_results"
            /\ ask.tried = << <<"ANCHOR", BaselineQuery>>, <<"OR", << >> >> >>
       ELSE /\ ask.out = "sources"
            /\ ask.chunk_ids = ask.calls[1].res
            /\ ask.tried = << <<"ANCHOR", BaselineQuery>> >>

\* a question of stopwords only has been answered with no results
C9_Witness ==
  /\ ask.pc = "done" /\ Tiered
  /\ ask.args.question # << >>
  /\ Vacuous(ask.args.question)
  /\ ask.out = "no_results"

\* the chunk with this id holds a boilerplate marker, in any letter case
Marked(cid) ==
  \E c \in committed.chunks :
    /\ c.chunk_id = cid
    /\ \E b \in BOILERPLATE : Contains(Lower(c.text), b)

\* C10: no call of search_chunks, of any tier, returns a chunk whose text
\* holds a boilerplate marker, and no such chunk is in the planner's result.
C10_NoBoilerplate ==
  /\ \A i \in DOMAIN ask.calls :
       \A j \in DOMAIN ask.calls[i].res : ~Marked(ask.calls[i].res[j])
  /\ \A j \in DOMAIN ask.chunk_ids : ~Marked(ask.chunk_ids[j])

\* a call whose best-ranked hit is boilerplate returned the hit ranked next
C10_Witness ==
  \E i \in DOMAIN ask.calls :
    /\ Len(ask.calls[i].ranked) >= 2
    /\ Marked(ask.calls[i].ranked[1])
    /\ ask.calls[i].res = <<ask.calls[i].ranked[2]>>

\* the first n elements of a sequence, all of it when it is shorter
FirstN(q, n) == SubSeq(q, 1, IF Len(q) < n THEN Len(q) ELSE n)

NormAlphabet == {"a", SP, TAB, CR, NL}

InitNorm ==
  /\ db = EmptyDb /\ committed = EmptyDb
  /\ FsIdle /\ ing = IngIdle /\ ev = NoEvent /\ ask = AskIdle /\ hist = NoHist /\ wl = WlIdle
  /\ tx_pc = "raw"
  /\ tx_raw \in SeqsUpTo(NormAlphabet, MaxLen)
  /\ tx_norm = << >>
  /\ tx_T = 1
  /\ tx_O = 0
  /\ tx_chunks = << >> /\ tx_frame = NoFrame

\* the normalized text is normalized again (a re-ingestion of the artifact)
Renormalize ==
  /\ tx_pc = "normalized"
  /\ tx_norm' = normalize_text(tx_norm)
  /\ tx_pc' = "renormalized"
  /\ UNCHANGED <<tx_raw, tx_T, tx_O, tx_chunks, tx_frame, dbVars, fsVars, ing, ev, ask, wl, hist>>

NextNorm == Normalize \/ Renormalize

SpecNorm == InitNorm /\ [][NextNorm]_vars

\* C12: normalize_text is idempotent: normalizing the normalized text changes
\* nothing, for every raw text of letters, spaces, tabs, CRs and LFs.
C12_Idempotent ==
  [][tx_pc = "normalized" => tx_norm' = tx_norm]_vars

\* a text with a CR, a tab and content was normalized twice
C12_Witness ==
  /\ tx_pc = "renormalized"
  /\ \E i \in DOMAIN tx_raw : tx_raw[i] = CR
  /\ \E i \in DOMAIN tx_raw : tx_raw[i] = TAB
  /\ Len(tx_norm) >= 3
  /\ tx_norm # tx_raw

\* the canonical form but for the claim about leading whitespace
CanonicalBody(norm) ==
  /\ \A i \in DOMAIN norm : norm[i] # CR
  /\ \A i \in 1..(Len(norm) - 1) :
       ~(norm[i] \in {SP, TAB, CR} /\ norm[i + 1] \in {SP, TAB, CR})
  /\ \A i \in 1..(Len(norm) - 3) :
       ~(\A j \in i..(i + 3) : norm[j] = NL)
  /\ norm # << >> /\ norm[Len(norm)] = NL
  /\ Len(norm) >= 2 => norm[Len(norm) - 1] # NL

\* a run of four or more newlines between two letters of the raw text has
\* become exactly three
RunsCapped(raw, norm) ==
  \A i \in DOMAIN raw : \A n \in 4..Len(raw) :
    ( /\ i + n + 1 <= Len(raw)
      /\ raw[i] = "a" /\ raw[i + n + 1] = "a"
      /\ \A j \in (i + 1)..(i + n) : raw[j] = NL )
    => Contains(norm, <<"a", NL, NL, NL, "a">>)

\* normalizing "A\r\n\r\n\r\n\r\nB" yields "A\n\n\nB\n"
NormExample ==
  normalize_text(<<"A", CR, NL, CR, NL, CR, NL, CR, NL, "B">>)
    = <<"A", NL, NL, NL, "B", NL>>

\* C13 (as claimed): the output of normalize_text has no CR, no two adjacent
\* whitespace characters other than newlines, no run of four or more
\* newlines (a longer run has become three), no leading whitespace, and
\* exactly one newline at its end; the example of the claim holds.
C13_Canonical ==
  tx_pc = "normalized" =>
    /\ CanonicalBody(tx_norm)
    /\ RunsCapped(tx_raw, tx_norm)
    /\ ~IsSpace(tx_norm[1])
    /\ NormExample

\* C13 (amended): as claimed, except that the output of an empty or
\* whitespace-only text is the single newline; every other output begins
\* with a character that is not whitespace.
C13_CanonicalOrNewline ==
  tx_pc = "normalized" =>
    /\ CanonicalBody(tx_norm)
    /\ RunsCapped(tx_raw, tx_norm)
    /\ IF \A i \in DOMAIN tx_raw : IsSpace(tx_raw[i])
       THEN tx_norm = <<NL>>
       ELSE ~IsSpace(tx_norm[1])
    /\ NormExample

\* a text with a run of four newlines between letters was normalized
C13_Witness ==
  /\ tx_pc = "normalized"
  /\ Contains(tx_raw, <<"a", NL, NL, NL, NL, "a">>)
  /\ tx_norm = <<"a", NL, NL, NL, "a", NL>>

(***************************************************************************)
(* Chunk identity                                                          *)
(***************************************************************************)
\* what the chunker emitted for a set of chunk rows: index, text and offsets
ChunkTuples(rows) ==
  {<<c.chunk_idx, c.text, c.start_char, c.end_char>> : c \in rows}

\* C14: the chunk_ids of the chunks of one document are pairwise distinct;
\* the chunk_id of every stored row is the id of its own doc_id, index and
\* offsets; and an ingestion that yields the chunks (text, start, end) the
\* document had before yields the chunk_ids it had before.
C14_ChunkIdentity ==
  /\ ing.pc = "insert" =>
       \A i, j \in 1..Len(ing.cur.chunks) :
         i # j => chunk_id_for(ing.cur.doc_id, i - 1, ing.cur.chunks[i].s,
                               ing.cur.chunks[i].e)
                  # chunk_id_for(ing.cur.doc_id, j - 1, ing.cur.chunks[j].s,
                                 ing.cur.chunks[j].e)
  /\ \A c \in db.chunks :
       c.chunk_id = <<"sha1", c.doc_id, c.chunk_idx, c.start_char, c.end_char>>
  /\ ev.kind = "commit" =>
       LET new == ChunksOfDoc(committed, ev.doc_id) IN
       /\ Cardinality({c.chunk_id : c \in new}) = Cardinality(ChunkTuples(new))
       /\ ChunkTuples(ev.old) = ChunkTuples(new) =>
            {c.chunk_id : c \in ev.old} = {c.chunk_id : c \in new}

\* a document of several chunks was ingested again with the same text
C14_Witness ==
  /\ ev.kind = "commit"
  /\ Cardinality(ev.old) >= 2
  /\ ChunkTuples(ev.old) = ChunkTuples(ChunksOfDoc(committed, ev.doc_id))

(***************************************************************************)
(* The hard split of a single long paragraph                               *)
(***************************************************************************)
\* how many slices a paragraph of L > T characters is cut into: the least n
\* with (n - 1) * (T - O) + T >= L
SliceCount(L, T, O) == 1 + ((L - T) + (T - O) - 1) \div (T - O)

\* a paragraph of 6000 characters, and the state of the chunker's loop after
\* it (re.split returns a text without blank line as its one paragraph)
Para6000 == [i \in 1..6000 |-> "x"]
After6000 ==
  ParaLoop([chunks |-> << >>, buf |-> << >>, start |-> 0], <<Para6000>>, 2500, 200)

\* C15: a text that is one paragraph of L > T characters is cut into slices
\* that start at 0, T-O, 2(T-O), ...; each but the last is T long; each two
\* consecutive slices share O characters; each slice is the text between its
\* offsets; the last ends at L.  6000 characters with T = 2500 and O = 200
\* give 3 chunks.
C15_HardSplit ==
  /\ tx_pc = "chunked" =>
       LET ps == ParasOf(tx_norm)
           n == Len(tx_chunks)
       IN (Len(ps) = 1 /\ Len(ps[1]) > tx_T) =>
            /\ n = SliceCount(Len(ps[1]), tx_T, tx_O)
            /\ \A i \in 1..n :
                 /\ tx_chunks[i].s = (i - 1) * (tx_T - tx_O)
                 /\ tx_chunks[i].text = SubSeq(tx_norm, tx_chunks[i].s + 1, tx_chunks[i].e)
                 /\ i < n => /\ Len(tx_chunks[i].text) = tx_T
                             /\ tx_chunks[i].e - tx_chunks[i + 1].s = tx_O
                             /\ LastN(tx_chunks[i].text, tx_O)
                                  = SubSeq(tx_chunks[i + 1].text, 1, tx_O)
            /\ tx_chunks[n].e = Len(ps[1])
            /\ Len(tx_chunks[n].text) <= tx_T
  /\ Len(After6000.chunks) = 2
  /\ After6000.chunks[1].s = 0 /\ After6000.chunks[1].e = 2500
  /\ After6000.chunks[2].s = 2300 /\ After6000.chunks[2].e = 4800
  /\ After6000.start = 4600 /\ Len(After6000.buf) = 1400

\* one paragraph was cut into three overlapping slices
C15_Witness ==
  /\ tx_pc = "chunked"
  /\ Len(ParasOf(tx_norm)) = 1
  /\ Len(tx_chunks) = 3
  /\ tx_O >= 1
  /\ tx_chunks[2].s = tx_T - tx_O

(***************************************************************************)
(* Edge cases of the chunker                                               *)
(***************************************************************************)
\* C16: an empty or whitespace-only text gives no chunk; a text with content
\* whose normalized form is shorter than target_chars gives one chunk that
\* starts at 0 and holds every paragraph; with overlap_chars = 0 the first
\* chunk starts at 0 and every other chunk where the one before it ends.
C16_EdgeCases ==
  tx_pc = "chunked" =>
    /\ (\A i \in DOMAIN tx_raw : IsSpace(tx_raw[i])) => tx_chunks = << >>
    /\ ((\E i \in DOMAIN tx_raw : ~IsSpace(tx_raw[i])) /\ Len(tx_norm) < tx_T) =>
         /\ Len(tx_chunks) = 1
         /\ tx_chunks[1].s = 0
         /\ tx_chunks[1].text = JoinParas(ParasOf(tx_norm))
         /\ tx_chunks[1].e = Len(tx_chunks[1].text)
    /\ tx_O = 0 =>
         \A i \in DOMAIN tx_chunks :
           tx_chunks[i].s = IF i = 1 THEN 0 ELSE tx_chunks[i - 1].e

\* two paragraphs were chunked without overlap into two chunks
C16_Witness ==
  /\ tx_pc = "chunked"
  /\ tx_O = 0
  /\ Len(ParasOf(tx_norm)) = 2
  /\ Len(tx_chunks) = 2
  /\ tx_chunks[2].s = tx_chunks[1].e


(***************************************************************************)
(* Failures in a batch                                                     *)
(***************************************************************************)
\* the files the running batch lists
BatchSize ==
  Cardinality({p \in (IF ing.run = "pdf" THEN PdfPaths ELSE TxtPaths) :
                 ~files[p].gone})

\* each listed file is waiting, in the loop body, or counted once as ok or
\* failed; each counted failure has one log entry
Accounted ==
  /\ ing.done + ing.failed + Len(ing.todo)
       + (IF ing.pc = "next" THEN 0 ELSE 1) = BatchSize
  /\ Len(ing.log) = ing.failed

\* C17: a failure while one file is ingested does not end the batch: the files
\* after it stay to be processed, the failure is counted once and logged once
\* with its path and cause, and every listed file is counted exactly once as
\* ok or failed.
C17_FailureIsolated ==
  /\ [](ing.run # "idle" => Accounted)
  /\ [][ (ing' # ing /\ ev'.kind \in {"failed", "abort"}) =>
           /\ ing'.run = ing.run /\ ing'.todo = ing.todo /\ ing'.pc = "next"
           /\ ing'.failed = ing.failed + 1 /\ ing'.done = ing.done
           /\ Len(ing'.log) = Len(ing.log) + 1
           /\ ing'.log[Len(ing'.log)][1] = ing.cur.rel ]_vars

\* the causes of failure that belong to the document itself
DocumentFailures == {"pdftotext failed", "extracted text too short"}

\* the ingestion of a document has just failed for one of these causes
JustFailed ==
  /\ ev.kind = "failed"
  /\ ing.log # << >>
  /\ ing.log[Len(ing.log)][2] \in DocumentFailures

\* C18: after the ingestion of a document failed (extraction failure or text
\* below the minimum length) no chunk row and no index entry exists for its
\* doc_id, whether or not an earlier version was ingested before.
C18_FailedIsUnindexed ==
  JustFailed =>
    /\ ChunksOfDoc(db, ev.doc_id) = {}
    /\ FtsOfDoc(db, ev.doc_id) = << >>

(***************************************************************************)
(* The work linker: work_link.py                                           *)
(***************************************************************************)
\* None of Python; the integer n is <<n>>
None == << >>

\* the characters \s and, under re.I, [ivxlcdm] of a regular expression
WsChars == {SP, TAB, NL, CR}
RomanChars == {"i", "v", "x", "l", "c", "d", "m", "I", "V", "X", "L", "C", "D", "M"}

\* the index after the longest run of characters of set that starts at s[i]
RECURSIVE RunEnd(_, _, _)
RunEnd(s, i, set) ==
  IF i <= Len(s) /\ s[i] \in set THEN RunEnd(s, i + 1, set) ELSE i

\* under re.I the literal lit (in lower case) stands at s[i]
LitAt(s, i, lit) ==
  /\ i + Len(lit) - 1 <= Len(s)
  /\ Lower(SubSeq(s, i, i + Len(lit) - 1)) = lit

\* \b holds between s[i-1] and s[i]
WordBoundary(s, i) ==
  (i > 1 /\ s[i - 1] \in WordChars) # (i <= Len(s) /\ s[i] \in WordChars)

\* the index after "vol\.?\s*" matched at s[i]
AfterVol(s, i) ==
  RunEnd(s, IF i + 3 <= Len(s) /\ s[i + 3] = "." THEN i + 4 ELSE i + 3, WsChars)

NoMatch == [ok |-> FALSE, end |-> 0, g |-> << >>]
Matched(e, g) == [ok |-> TRUE, end |-> e, g |-> g]

\* VOL_PATTERNS[k] matched at s[i]: whether it matches, the index after the
\* match, and its groups.  Every quantifier of the patterns is followed by a
\* character it cannot match, so the greedy match is the only one; in "0*(\d+)"
\* the zeros give back one digit when nothing else is left for the group.
VolAt(k, s, i) ==
  LET vol == <<"v", "o", "l">>
      of == <<"o", "f">>
  IN
  CASE k = 0 ->
         LET a1 == RunEnd(s, i + 1, WsChars)
             a3 == AfterVol(s, a1)
             a4 == RunEnd(s, a3, Digits)
             a5 == RunEnd(s, a4, WsChars)
             a6 == RunEnd(s, a5 + 2, WsChars)
             a7 == RunEnd(s, a6, Digits)
             a8 == RunEnd(s, a7, WsChars)
         IN IF /\ LitAt(s, i, <<"(">>) /\ LitAt(s, a1, vol) /\ a4 > a3
               /\ LitAt(s, a5, of) /\ a7 > a6 /\ LitAt(s, a8, <<")">>)
            THEN Matched(a8 + 1, <<SubSeq(s, a3, a4 - 1), SubSeq(s, a6, a7 - 1)>>)
            ELSE NoMatch
    [] k = 1 ->
         LET b3 == AfterVol(s, i)
             b4 == RunEnd(s, b3, Digits)
             z == RunEnd(s, b3, {"0"})
             gs == IF z = b4 THEN b4 - 1 ELSE z
         IN IF /\ WordBoundary(s, i) /\ LitAt(s, i, vol) /\ b4 > b3
               /\ WordBoundary(s, b4)
            THEN Matched(b4, <<SubSeq(s, gs, b4 - 1)>>)
            ELSE NoMatch
    [] k = 2 ->
         LET c1 == RunEnd(s, i + 6, WsChars)
             cr == RunEnd(s, c1, RomanChars)
             cd == RunEnd(s, c1, Digits)
             roman == cr > c1 /\ WordBoundary(s, cr)
             e == IF roman THEN cr ELSE cd
         IN IF /\ WordBoundary(s, i) /\ LitAt(s, i, <<"v", "o", "l", "u", "m", "e">>)
               /\ c1 > i + 6
               /\ (roman \/ (cd > c1 /\ WordBoundary(s, cd)))
            THEN Matched(e, <<SubSeq(s, c1, e - 1)>>)
            ELSE NoMatch
    [] OTHER ->
         LET d3 == AfterVol(s, i)
             d4 == RunEnd(s, d3, RomanChars)
             d5 == RunEnd(s, d4, WsChars)
             d6 == RunEnd(s, d5 + 2, WsChars)
             d7 == RunEnd(s, d6, RomanChars)
         IN IF /\ WordBoundary(s, i) /\ LitAt(s, i, vol) /\ d4 > d3
               /\ LitAt(s, d5, of) /\ d7 > d6 /\ WordBoundary(s, d7)
            THEN Matched(d7, <<SubSeq(s, d3, d4 - 1), SubSeq(s, d6, d7 - 1)>>)
            ELSE NoMatch

\* where pattern k matches in s at or after index from (0: nowhere)
FirstAt(k, s, from) ==
  LET I == {i \in from..Len(s) : VolAt(k, s, i).ok}
  IN IF I = {} THEN 0 ELSE CHOOSE i \in I : \A j \in I : i <= j

\* pat.search(fn)
Search(k, s) ==
  IF FirstAt(k, s, 1) = 0 THEN NoMatch ELSE VolAt(k, s, FirstAt(k, s, 1))

\* str.isdigit() and int() on decimal digits
IsDigit(v) == v # << >> /\ \A i \in DOMAIN v : v[i] \in Digits
RECURSIVE int(_)
int(v) ==
  IF v = << >> THEN 0
  ELSE 10 * int(SubSeq(v, 1, Len(v) - 1)) + (Code(v[Len(v)]) - Code("0"))

\* ROMAN: the n-th entry is the numeral of n
ROMAN ==
  << <<"I">>, <<"I", "I">>, <<"I", "I", "I">>, <<"I", "V">>, <<"V">>,
     <<"V", "I">>, <<"V", "I", "I">>, <<"V", "I", "I", "I">>, <<"I", "X">>,
     <<"X">>, <<"X", "I">>, <<"X", "I", "I">>, <<"X", "I", "I", "I">>,
     <<"X", "I", "V">>, <<"X", "V">>, <<"X", "V", "I">>,
     <<"X", "V", "I", "I">>, <<"X", "V", "I", "I", "I">>, <<"X", "I", "X">>,
     <<"X", "X">> >>

roman_to_int(s) ==
  LET UpperChar(c) ==
        IF c \in SeqRange(LowerChars)
        THEN UpperChars[CHOOSE i \in DOMAIN LowerChars : LowerChars[i] = c]
        ELSE c
      u == [i \in DOMAIN Strip(s) |-> UpperChar(Strip(s)[i])]
  IN IF \E n \in DOMAIN ROMAN : ROMAN[n] = u
     THEN <<CHOOSE n \in DOMAIN ROMAN : ROMAN[n] = u>>
     ELSE None

\* the loop of parse_volume from VOL_PATTERNS[k] on
RECURSIVE parse_volume_from(_, _)
parse_volume_from(fn, k) ==
  IF k > 3 THEN <<None, None>>
  ELSE LET m == Search(k, fn)
           g == m.g
       IN IF ~m.ok THEN parse_volume_from(fn, k + 1)
          ELSE IF Len(g) = 2 /\ IsDigit(g[1]) /\ IsDigit(g[2])
          THEN << <<int(g[1])>>, <<int(g[2])>> >>
          ELSE IF Len(g) = 1
          THEN IF IsDigit(g[1]) THEN << <<int(g[1])>>, None >>
               ELSE <<roman_to_int(g[1]), None>>
          ELSE LET ra == roman_to_int(g[1])
                   rb == roman_to_int(g[2])
               IN IF ra # None /\ rb # None THEN <<ra, rb>>
                  ELSE parse_volume_from(fn, k + 1)

parse_volume(fn) == parse_volume_from(fn, 0)

\* re.sub of VOL_PATTERNS[k]'s text by "" in s from index from on (the
\* patterns of clean_title match the same text as VOL_PATTERNS[0..2])
RECURSIVE SubVol(_, _, _)
SubVol(k, s, from) ==
  LET i == FirstAt(k, s, from)
  IN IF i = 0 THEN SubSeq(s, from, Len(s))
     ELSE SubSeq(s, from, i - 1) \o SubVol(k, s, VolAt(k, s, i).end)

\* re.sub(r"\s{n,}", " ", s)
RECURSIVE SubWs(_, _)
SubWs(s, n) ==
  LET e == RunEnd(s, 1, WsChars)
  IN IF s = << >> THEN << >>
     ELSE IF e - 1 >= n THEN <<SP>> \o SubWs(Drop(s, e - 1), n)
     ELSE <<Head(s)>> \o SubWs(Tail(s), n)

\* s.strip(chars)
StripChars(s, chars) ==
  LET K == {j \in DOMAIN s : s[j] \notin chars}
  IN IF K = {} THEN << >>
     ELSE SubSeq(s, CHOOSE i \in K : \A j \in K : i <= j,
                    CHOOSE i \in K : \A j \in K : i >= j)

clean_title(fn) ==
  LET \* "$": the end of s, or the newline that ends s
      AtEnd(s, i) == i = Len(s) + 1 \/ (i = Len(s) /\ s[i] = NL)
      First(I) == CHOOSE i \in I : \A j \in I : i <= j
      \* r"\.[A-Za-z0-9]+$"
      ExtEnd(s, i) == RunEnd(s, i + 1, AlnumChars)
      ExtAt(s, i) == s[i] = "." /\ ExtEnd(s, i) > i + 1 /\ AtEnd(s, ExtEnd(s, i))
      SubExt(s) ==
        LET I == {i \in DOMAIN s : ExtAt(s, i)}
        IN IF I = {} THEN s
           ELSE SubSeq(s, 1, First(I) - 1) \o Drop(s, ExtEnd(s, First(I)) - 1)
      \* r"\s*\(\s*\d+\s*p\.\s*\)\s*$" and r"\s*\(\s*\d+\s*p\)\s*$"
      PageAt(s, i, p) ==
        LET p0 == RunEnd(s, i, WsChars)
            p1 == RunEnd(s, p0 + 1, WsChars)
            p2 == RunEnd(s, p1, Digits)
            p3 == RunEnd(s, p2, WsChars)
            p4 == RunEnd(s, p3 + Len(p), WsChars)
            p5 == RunEnd(s, p4 + 1, WsChars)
        IN /\ LitAt(s, p0, <<"(">>) /\ p2 > p1 /\ LitAt(s, p3, p)
           /\ LitAt(s, p4, <<")">>) /\ p5 = Len(s) + 1
      SubPage(s, p) ==
        LET I == {i \in DOMAIN s : PageAt(s, i, p)}
        IN IF I = {} THEN s ELSE SubSeq(s, 1, First(I) - 1)
      t == SubPage(SubPage(SubExt(fn), <<"p", ".">>), <<"p">>)
      t2 == SubVol(2, SubVol(1, SubVol(0, t, 1), 1), 1)
  IN Strip(StripChars(SubWs(t2, 2), {SP, "-", "_"}))

\* (mutant) the title is hashed in the case it is written in
make_work_id_keep_case(work_title) ==
  <<"sha1", SubWs(Strip(work_title), 1)>>

\* sha1 of the stripped, lower-cased title with its whitespace runs collapsed
make_work_id(work_title) ==
  <<"sha1", SubWs(Lower(Strip(work_title)), 1)>>

(***************************************************************************)
(* main of work_link.py over a docs table of two documents                 *)
(***************************************************************************)
\* the decimal and the roman numeral of n >= 1
RECURSIVE Decimal(_)
Decimal(n) ==
  (IF n >= 10 THEN Decimal(n \div 10) ELSE << >>)
    \o <<CodeOrder[Code("0") + (n % 10)]>>
RECURSIVE Numeral(_)
Numeral(n) ==
  IF n >= 10 THEN <<"X">> \o Numeral(n - 10)
  ELSE IF n = 9 THEN <<"I", "X">>
  ELSE IF n >= 5 THEN <<"V">> \o Numeral(n - 5)
  ELSE IF n = 4 THEN <<"I", "V">>
  ELSE IF n >= 1 THEN <<"I">> \o Numeral(n - 1)
  ELSE << >>

\* the volume markers of the file names: "Vol. N of M" bare and in
\* parentheses, "Vol 0N", "Volume R", "Vol. I of II"
VolOf(n, m) == <<"V", "o", "l", ".", SP>> \o Decimal(n) \o <<SP, "o", "f", SP>> \o Decimal(m)
VolumeR(r) == <<"V", "o", "l", "u", "m", "e", SP>> \o r
Markers ==
  {<< >>, <<"V", "o", "l", SP, "0">> \o Decimal(MaxVol),
   <<"V", "o", "l", ".", SP, "I", SP, "o", "f", SP, "I", "I">>}
  \cup {VolOf(n, m) : n, m \in 1..MaxVol}
  \cup {<<"(">> \o VolOf(n, m) \o <<")">> : n, m \in 1..MaxVol}
  \cup {VolumeR(Numeral(n)) : n \in 1..MaxRoman}
  \cup {VolumeR(Decimal(MaxVol)), VolumeR(<<"i", "i">>)}

\* one marker of each of the four forms of VOL_PATTERNS
FourForms ==
  {<<"(">> \o VolOf(1, 2) \o <<")">>, <<"V", "o", "l", SP, "1">>,
   VolumeR(Numeral(2)),
   <<"V", "o", "l", ".", SP, "I", "I", SP, "o", "f", SP, "I", "I">>}

\* titles that differ in case and in whitespace only, another one, and none
Titles ==
  {<<"A", "b", SP, "c">>, <<"a", "B", TAB, "c">>, <<"a", "b", SP, SP, "C">>,
   <<"a", "b", "c">>, << >>}

WithMarker(t, m) == IF t = << >> \/ m = << >> THEN t \o m ELSE t \o <<SP>> \o m

\* the file names of the first document (every marker, with and without a
\* title; every title with a page count) and of the second document
NamesA ==
  {WithMarker(t, m) \o <<".", "p", "d", "f">> :
     t \in {<<"A", "b", SP, "c">>, << >>}, m \in Markers}
  \cup {t \o <<SP, "(", "4", "0", "9", "p", ")", ".", "p", "d", "f">> : t \in Titles}
NamesB ==
  {t \o <<".", "t", "x", "t">> : t \in Titles}
  \cup {<<"a", "b", SP, "c", SP, "V", "o", "l", ".", SP, "1", SP, "(", "1", "2",
          SP, "p", ".", ")", ".", "t", "x", "t">>}
  \cup {WithMarker(<<"A", "b", SP, "c">>, m) \o <<".", "t", "x", "t">> : m \in FourForms}

LinkDocs == {"A", "B"}
DocRow(d, rel, ext) ==
  [doc_id |-> d, rel_path |-> rel, ext |-> ext, work_id |-> None,
   work_title |-> None, vol_idx |-> None, vol_total |-> None]

InitLink ==
  /\ db = EmptyDb /\ committed = EmptyDb
  /\ FsIdle /\ ing = IngIdle /\ ev = NoEvent /\ ask = AskIdle /\ hist = NoHist
  /\ tx_pc = "raw" /\ tx_raw = << >> /\ tx_norm = << >>
  /\ tx_T = 1 /\ tx_O = 0 /\ tx_chunks = << >> /\ tx_frame = NoFrame
  /\ \E a \in NamesA, b \in NamesB :
       wl = [WlIdle EXCEPT !.docs =
               [d \in LinkDocs |->
                  IF d = "A" THEN DocRow(d, <<"d", "/">> \o a, "pdf")
                  ELSE DocRow(d, b, "txt")]]

wlRest == <<txVars, dbVars, fsVars, ing, ev, ask, hist>>

\* main up to the loop: SELECT doc_id, rel_path, ext FROM docs WHERE ext IN
\* ('pdf','txt'), in whatever order the rows come
StartLink ==
  /\ wl.pc = "idle" /\ wl.runs < MaxLinkRuns
  /\ \E order \in Orders({d \in DOMAIN wl.docs : wl.docs[d].ext \in {"pdf", "txt"}}) :
       wl' = [wl EXCEPT !.pc = "loop", !.rows = order, !.updated = 0]
  /\ UNCHANGED wlRest

\* rel.split("/")[-1]
LastSegment(rel) ==
  LET I == {i \in DOMAIN rel : rel[i] = "/"}
  IN IF I = {} THEN rel ELSE Drop(rel, CHOOSE i \in I : \A j \in I : i >= j)

\* the head of the loop body: the file name, parse_volume, clean_title
ParseRow ==
  /\ wl.pc = "loop" /\ wl.rows # << >>
  /\ wl' = [wl EXCEPT !.pc = "update",
                      !.vol = parse_volume(LastSegment(wl.docs[Head(wl.rows)].rel_path)),
                      !.work_title = clean_title(LastSegment(wl.docs[Head(wl.rows)].rel_path))]
  /\ UNCHANGED wlRest

\* the rest of the loop body: a row without a title is left as it is, else
\* UPDATE docs SET work_id, work_title, vol_idx, vol_total WHERE doc_id
LinkRow ==
  /\ wl.pc = "update"
  /\ IF wl.work_title = << >>
     THEN wl' = [wl EXCEPT !.pc = "loop", !.rows = Tail(@)]
     ELSE wl' = [wl EXCEPT !.pc = "loop", !.rows = Tail(@), !.updated = @ + 1,
                           !.docs[Head(wl.rows)].work_id = make_work_id(wl.work_title),
                           !.docs[Head(wl.rows)].work_title = wl.work_title,
                           !.docs[Head(wl.rows)].vol_idx = wl.vol[1],
                           !.docs[Head(wl.rows)].vol_total = wl.vol[2]]
  /\ UNCHANGED wlRest

\* con.commit(); con.close()
EndLink ==
  /\ wl.pc = "loop" /\ wl.rows = << >>
  /\ wl' = [wl EXCEPT !.pc = "idle", !.runs = @ + 1]
  /\ UNCHANGED wlRest

NextLink == StartLink \/ ParseRow \/ LinkRow \/ EndLink

SpecLink == InitLink /\ [][NextLink]_vars

(***************************************************************************)
(* Properties of the work linker                                           *)
(***************************************************************************)
\* the file name of a document of the docs table
FileName(d) == LastSegment(wl.docs[d].rel_path)

\* two titles are equal up to letter case and the length and kind of their
\* whitespace runs
SameTitle(t, u) == Lower(SubWs(t, 1)) = Lower(SubWs(u, 1))

\* C19: once work_link.py has run, two documents whose cleaned titles (the
\* work_title of their rows) are equal up to letter case and whitespace have
\* the same work_id, in whatever order the rows were visited, and a further
\* run changes no row.
C19_WorkIdOfTitle ==
  /\ [](wl.runs >= 1 =>
          \A d, e \in LinkDocs :
            SameTitle(wl.docs[d].work_title, wl.docs[e].work_title)
              => wl.docs[d].work_id = wl.docs[e].work_id)
  /\ [][wl.runs >= 1 => wl'.docs = wl.docs]_vars

\* after two runs, two documents whose stored titles differ have one work_id
C19_Witness ==
  /\ wl.runs >= 2
  /\ wl.docs["A"].work_title # wl.docs["B"].work_title
  /\ wl.docs["A"].work_id # None
  /\ wl.docs["A"].work_id = wl.docs["B"].work_id

\* the marker stands in the file name and no word character follows it
Occurs(fn, marker) ==
  \E i \in 1..(Len(fn) - Len(marker) + 1) :
    /\ SubSeq(fn, i, i + Len(marker) - 1) = marker
    /\ (i + Len(marker) <= Len(fn) => fn[i + Len(marker)] \notin WordChars)

\* C20: once work_link.py has run, a document it has linked whose file name
\* contains "Vol. N of M" has vol_idx = N and vol_total = M, and one whose file
\* name contains "Volume R", R the roman numeral of n, has vol_idx = n and
\* vol_total = None.
C20_VolumeAssigned ==
  wl.runs >= 1 =>
    \A d \in {d \in LinkDocs : wl.docs[d].work_id # None} :
      /\ \A n, m \in 1..MaxVol :
           Occurs(FileName(d), VolOf(n, m)) =>
             wl.docs[d].vol_idx = <<n>> /\ wl.docs[d].vol_total = <<m>>
      /\ \A n \in 1..MaxRoman :
           Occurs(FileName(d), VolumeR(Numeral(n))) =>
             wl.docs[d].vol_idx = <<n>> /\ wl.docs[d].vol_total = None

\* the markers of the four forms among those of the file names: all but none
\* and the bare "Vol. N of M"
Recognized == (Markers \cup FourForms) \ ({<< >>} \cup {VolOf(n, m) : n, m \in 1..MaxVol})

\* the file name is this title with this marker, and an extension
HasMarker(fn, t, m) == \E e \in {<<".", "p", "d", "f">>, <<".", "t", "x", "t">>} :
                      fn = WithMarker(t, m) \o e

\* C21: once work_link.py has run, two documents whose file names differ only
\* in their volume marker, each of one of the four forms, have the same
\* work_title and the same work_id.
C21_MarkerStripped ==
  wl.runs >= 1 =>
    \A t \in Titles \ {<< >>} : \A m1, m2 \in Recognized :
      (HasMarker(FileName("A"), t, m1) /\ HasMarker(FileName("B"), t, m2)) =>
        /\ wl.docs["A"].work_title = wl.docs["B"].work_title
        /\ wl.docs["A"].work_id = wl.docs["B"].work_id

-----------------------------------------------------------------------------
(* Identity of the docs rows across ingestion runs                          *)

\* the docs table d holds one row per relative path, keyed by the path's id
OneRowPerPath(d) ==
  \A r1, r2 \in d.docs :
    /\ r1.doc_id = doc_id_for(r1.rel_path)
    /\ (r1.rel_path = r2.rel_path \/ r1.doc_id = r2.doc_id) => r1 = r2

\* C22: in the connection's view and in the committed database, docs holds at
\* most one row per relative path and the row's doc_id is a function of the
\* path alone, so that changed content under the same path keeps the row and
\* the same content under another path has another row; and no step that
\* changes the committed database removes a docs row, whether or not the
\* row's source file still exists.
C22_DocIdentity ==
  /\ [](OneRowPerPath(db) /\ OneRowPerPath(committed))
  /\ [](\A p, q \in Paths : p # q => doc_id_for(p) # doc_id_for(q))
  /\ [][\A r \in committed.docs :
          \E r2 \in committed'.docs :
            r2.doc_id = r.doc_id /\ r2.rel_path = r.rel_path]_vars

\* a changed file has just been ingested again into the row of its path, while
\* the row of a file that has disappeared is still there and two rows of
\* different paths hold the same content
C22_Witness ==
  /\ ev.kind = "commit" /\ ev.old # {}
  /\ ChunksOfDoc(committed, ev.doc_id) # ev.old
  /\ \E r \in committed.docs : files[r.rel_path].gone
  /\ \E r1, r2 \in committed.docs :
       r1.doc_id # r2.doc_id /\ r1.norm_hash = r2.norm_hash

-----------------------------------------------------------------------------
(* Interrupted ingestion runs                                               *)

\* what one uninterrupted run of this kind leaves for the file at path p: the
\* docs row of the file, the chunk rows and index entries of its normalized
\* text, and the normalized text as its artifact.  A file the run fails on
\* (bad PDF, text too short) gets nothing written.
CleanlyIngested(run, p) ==
  LET f == files[p]
      d == doc_id_for(p)
      norm == normalize_text(f.text)
      new == FullChunkRows(d, norm)
  IN (~ExtractFails(run, f) /\ ~TooShort(run, norm)) =>
       /\ \E r \in committed.docs :
            /\ r.doc_id = d /\ r.rel_path = p /\ r.ext = run
            /\ r.size_bytes = StatSize(f) /\ r.mtime_ns = StatMtime(f)
            /\ r.norm_hash = sha256_text(norm)
       /\ ChunksOfDoc(committed, d) = new
       /\ FtsOfDoc(committed, d) = SetToBag(IndexRows(new))
       /\ d \in DOMAIN artifacts /\ artifacts[d] = norm

\* C23: when a run was killed, at whatever point, and a run of the same kind
\* has then reached its end, every file it listed has the docs row, chunk rows,
\* index entries and normalized artifact of an uninterrupted run.
C23_CrashRecovery ==
  (hist.crashes > 0 /\ ev.kind = EndOf(hist.run)) =>
    \A p \in (IF hist.run = "pdf" THEN PdfPaths ELSE TxtPaths) :
      ~files[p].gone => CleanlyIngested(hist.run, p)

\* the next run will skip the file at path p as unchanged: its committed docs
\* row holds the file's size and mtime and its artifact exists
WillSkip(p) ==
  /\ ~files[p].gone
  /\ SkipUnchanged(DocRows(committed, doc_id_for(p)), StatSize(files[p]),
                   StatMtime(files[p]), doc_id_for(p) \in DOMAIN artifacts)

\* C24: in every committed state, a document the next run will skip has in
\* the chunk table exactly the chunk rows of its normalized artifact.
C24_SkipConsistent ==
  \A p \in Paths :
    WillSkip(p) =>
      ChunksOfDoc(committed, doc_id_for(p)) =
        FullChunkRows(doc_id_for(p), artifacts[doc_id_for(p)])

-----------------------------------------------------------------------------
(* Offsets of the chunks                                                    *)

\* the length of the overlap tail taken from an emitted chunk: overlap_chars,
\* or 0 when overlap_chars is 0 or the chunk is not longer than it
TailLen(c, O) == IF O # 0 /\ Len(c.text) > O THEN O ELSE 0

\* C25: for 0 <= O < T, every chunk has end - start = length of its text; the
\* first chunk starts at 0; each later chunk starts at the end of the one
\* before it less the length of that chunk's overlap tail, so the start
\* offsets strictly increase and consecutive chunks overlap by at most O; the
\* last end is at most the length of the normalized text.
C25_Offsets ==
  tx_pc = "chunked" =>
    LET n == Len(tx_chunks) IN
    /\ \A i \in 1..n : tx_chunks[i].e - tx_chunks[i].s = Len(tx_chunks[i].text)
    /\ n >= 1 => tx_chunks[1].s = 0
    /\ \A i \in 2..n :
         /\ tx_chunks[i].s = tx_chunks[i - 1].e - TailLen(tx_chunks[i - 1], tx_O)
         /\ tx_chunks[i].s > tx_chunks[i - 1].s
         /\ tx_chunks[i - 1].e - tx_chunks[i].s <= tx_O
    /\ n >= 1 => tx_chunks[n].e <= Len(tx_norm)

\* three chunks or more with a positive overlap, each starting inside the
\* chunk before it
C25_Witness ==
  /\ tx_pc = "chunked" /\ tx_O > 0 /\ Len(tx_chunks) >= 3
  /\ \A i \in 2..Len(tx_chunks) : tx_chunks[i].s = tx_chunks[i - 1].e - tx_O

-----------------------------------------------------------------------------
(* The order of the volume patterns                                         *)

\* the value of a captured numeral: decimal, or roman in either case
NumeralValue(v) ==
  IF IsDigit(v) THEN <<int(v)>>
  ELSE IF \E n \in 1..MaxRoman : Lower(Numeral(n)) = Lower(v)
  THEN <<CHOOSE n \in 1..MaxRoman : Lower(Numeral(n)) = Lower(v)>>
  ELSE None

\* the volume of the first of the four patterns that matches the file name
FirstPatternVolume(fn) ==
  LET K == {k \in 0..3 : Search(k, fn).ok}
      k == CHOOSE k \in K : \A j \in K : k <= j
      g == Search(k, fn).g
  IN IF K = {} THEN <<None, None>>
     ELSE IF k = 0 THEN <<NumeralValue(g[1]), NumeralValue(g[2])>>
     ELSE IF k = 3 THEN <<NumeralValue(g[1]), NumeralValue(g[2])>>
     ELSE <<NumeralValue(g[1]), None>>

\* C26: parse_volume returns the volume of the first pattern, in the order
\* (a) "(Vol. N of M)", (b) "Vol N", (c) "Volume <roman-or-digit>", (d) "Vol I
\* of II", that matches the file name: (N, M), (N, None), (n, None) with n the
\* value of the numeral, (n1, n2); and (None, None) when none matches.
C26_FirstPattern ==
  wl.pc = "update" =>
    wl.vol = FirstPatternVolume(LastSegment(wl.docs[Head(wl.rows)].rel_path))

-----------------------------------------------------------------------------
(* The terms of the planner's queries                                       *)

\* the terms of a disjunctive query in the order they are written
TermList(fts_q) ==
  SelectSeq(Runs(fts_q, SeqRange(CodeOrder) \ {SP}, << >>),
            LAMBDA t : t # <<"O", "R">>)

\* the anchor terms that occur in the question, case folded
AnchorHits(question) ==
  {t \in SeqRange(ANCHOR_TERMS) : Contains(Lower(question), t)}

\* where a term is first seen: the hits in the order of the vocabulary, then
\* the baseline terms
SeenAt(hits, t) ==
  IF t \in hits
  THEN CHOOSE i \in DOMAIN ANCHOR_TERMS : ANCHOR_TERMS[i] = t
  ELSE Len(ANCHOR_TERMS) + (CHOOSE i \in DOMAIN baseline : baseline[i] = t)

\* C27: for every question (asked without --fts), the first query recorded is
\* the Anchor query; its terms are the anchor terms that occur in the question
\* together with the baseline terms, each once, in first-seen order; it is not
\* empty and it is executed, as the first call.
C27_AnchorQuery ==
  (Tiered /\ ask.pc \notin {"idle", "plan"}) =>
    LET hits == AnchorHits(ask.args.question)
        terms == TermList(ask.tried[1][2])
        seen == [i \in DOMAIN terms |-> SeenAt(hits, terms[i])]
    IN /\ ask.tried[1][1] = "ANCHOR"
       /\ SeqRange(terms) = hits \cup SeqRange(baseline)
       /\ \A i, j \in DOMAIN terms : i < j => seen[i] < seen[j]
       /\ terms # << >>
       /\ ask.calls # << >>
       /\ ask.calls[1].tag = "ANCHOR" /\ ask.calls[1].q = ask.tried[1][2]

\* a question with a baseline term and another anchor term, the latter inside
\* a longer word, has been answered
C27_Witness ==
  /\ Tiered /\ ask.pc = "done"
  /\ <<"g", "r", "a", "c", "e">> \in AnchorHits(ask.args.question)
  /\ <<"s", "i", "n">> \in AnchorHits(ask.args.question)
  /\ Len(TermList(ask.calls[1].q)) = Len(baseline) + 1

\* the tokens of a question: the runs of word characters of the lowercased
\* question that are no stopwords
Tokens(question) ==
  SeqRange(Runs(Lower(question), WordChars, << >>)) \ STOPWORDS

\* the query recorded for a tier (tag), empty when the tier was not recorded
TriedQuery(tag) ==
  LET I == {i \in DOMAIN ask.tried : ask.tried[i][1] = tag}
  IN IF I = {} THEN << >> ELSE ask.tried[CHOOSE i \in I : TRUE][2]

\* C28: the terms of the Broad-OR query are tokens of the question, each
\* once, in descending length and then lexicographic order, the first
\* max_terms of them; the Single-term query is the first of these; with no
\* token the Broad-OR query is empty and neither it nor a Single-term query is
\* executed.
C28_TermSelection ==
  Tiered =>
    LET toks == Tokens(ask.args.question)
        terms == TermList(TriedQuery("OR"))
        n == IF Cardinality(toks) < max_terms THEN Cardinality(toks) ELSE max_terms
    IN /\ "OR" \in SeqRange(Tags(ask.tried)) =>
            /\ Len(terms) = n
            /\ SeqRange(terms) \subseteq toks
            /\ \A i \in 1..(Len(terms) - 1) : KeyLess(terms[i], terms[i + 1])
            /\ \A t \in toks \ SeqRange(terms) :
                 \A i \in DOMAIN terms : KeyLess(terms[i], t)
            /\ (\E i \in DOMAIN ask.calls : ask.calls[i].tag = "OR") <=> toks # {}
       /\ "SINGLE" \in SeqRange(Tags(ask.tried)) =>
            /\ TermList(TriedQuery("SINGLE")) = <<terms[1]>>
            /\ \A t \in toks \ {terms[1]} : KeyLess(terms[1], t)
       /\ toks = {} => \A i \in DOMAIN ask.calls : ask.calls[i].tag = "ANCHOR"

\* a question of more than max_terms tokens went through all three tiers
C28_Witness ==
  /\ Tiered /\ ask.pc = "done"
  /\ Cardinality(Tokens(ask.args.question)) > max_terms
  /\ Tags(ask.tried) = TierTags
  /\ Len(TermList(TriedQuery("OR"))) = max_terms

-----------------------------------------------------------------------------
(* Ingestion and work linking on one database                               *)

\* the paths of the ingestion, spelled out
PathChars ==
  (PathA :> <<"A", ".", "p", "d", "f">>) @@
  (PathB :> <<"b", SP, "V", "o", "l", SP, "2", ".", "p", "d", "f">>) @@
  (PathC :> <<"c", ".", "t", "x", "t">>)

\* the loop body of work_link.py on one docs row: the row it leaves.  (The
\* values are bound one after the other, as the assignments of the loop body.)
LinkedRow(r) ==
  CHOOSE row \in
    UNION { UNION { { IF r.ext \notin {"pdf", "txt"} \/ work_title = << >> THEN r
                      ELSE [r EXCEPT !.work_id = work_id, !.work_title = work_title,
                                     !.vol_idx = vol[1], !.vol_total = vol[2]] :
                      work_id \in {make_work_id(work_title)} } :
                    vol \in {parse_volume(fn)}, work_title \in {clean_title(fn)} } :
            fn \in {LastSegment(PathChars[r.rel_path])} } : TRUE

\* one run of work_link.py, from connect to commit, while no ingestion has a
\* transaction open: between two runs or between two files of a run
LinkAll ==
  /\ ing.pc = "next" /\ db = committed
  /\ \E docs \in {{LinkedRow(r) : r \in committed.docs}} :
       /\ docs # committed.docs
       /\ committed' = [committed EXCEPT !.docs = docs]
  /\ db' = committed'
  /\ ev' = Event("link", << >>, {})
  /\ UNCHANGED <<ask, wl, hist, txVars, fsVars, ing>>

NextBoth ==
  \/ EditFile \/ StartRun \/ Scan \/ Extract \/ UpsertDoc \/ DeleteChunks
  \/ InsertChunk \/ Commit \/ EndRun \/ LinkAll

SpecBoth == InitIngest /\ [][NextBoth]_vars

\* the four columns work_link.py writes
Linkage(r) == <<r.work_id, r.work_title, r.vol_idx, r.vol_total>>

\* the columns the ingestion writes
Ingested(r) == <<r.doc_id, r.rel_path, r.ext, r.size_bytes, r.mtime_ns, r.norm_hash>>

\* C29: the upsert of the docs row leaves the linkage columns of an existing
\* row as they are; a run of work_link.py changes the linkage columns only,
\* not the other columns, the rows there are, the chunks, the index, the
\* files or the artifacts; so a linked row stays linked, with the same
\* linkage, through every later ingestion and every later linking.
C29_LinkageKept ==
  /\ [][ev'.kind = "upsert" =>
          \A r \in db.docs : \A r2 \in db'.docs :
            r2.doc_id = r.doc_id => Linkage(r2) = Linkage(r)]_vars
  /\ [][ev'.kind = "link" =>
          /\ committed'.chunks = committed.chunks /\ committed'.fts = committed.fts
          /\ {Ingested(r) : r \in committed'.docs} = {Ingested(r) : r \in committed.docs}
          /\ Cardinality(committed'.docs) = Cardinality(committed.docs)
          /\ UNCHANGED <<files, artifacts>>]_vars
  /\ [][\A r \in committed.docs :
          r.work_id # None =>
            \E r2 \in committed'.docs :
              r2.doc_id = r.doc_id /\ Linkage(r2) = Linkage(r)]_vars

\* a linked document with a volume number has been ingested again with
\* changed content and is still linked
C29_Witness ==
  /\ ev.kind = "commit" /\ ev.old # {}
  /\ ChunksOfDoc(committed, ev.doc_id) # ev.old
  /\ \E r \in committed.docs :
       /\ r.doc_id = ev.doc_id
       /\ Linkage(r) = <<make_work_id(<<"b">>), <<"b">>, <<2>>, None>>


(***************************************************************************)
(* chunk_paragraph_aware one loop iteration at a time: the for loop over   *)
(* the paragraphs and, inside it, the while loop of the hard cut           *)
(***************************************************************************)
CutAlphabet == {"a", SP, NL}

InitCut ==
  /\ db = EmptyDb /\ committed = EmptyDb
  /\ FsIdle /\ ing = IngIdle /\ ev = NoEvent /\ ask = AskIdle /\ hist = NoHist /\ wl = WlIdle
  /\ tx_pc = "call"
  /\ tx_raw = << >>
  /\ tx_norm \in SeqsUpTo(CutAlphabet, MaxLen)
  /\ tx_T \in 1..MaxT
  /\ tx_O \in 0..(tx_T - 1)
  /\ tx_chunks = << >> /\ tx_frame = NoFrame

cutRest == <<tx_raw, tx_norm, tx_T, tx_O, dbVars, fsVars, ing, ev, ask, wl, hist>>

\* the statements before the for loop: the split into paragraphs, buf, start
SplitText ==
  /\ tx_pc = "call"
  /\ tx_frame' = [NoFrame EXCEPT !.paras = SplitParas(tx_norm, << >>)]
  /\ tx_pc' = "for"
  /\ UNCHANGED <<tx_chunks, cutRest>>

\* one iteration of "for p in paras" up to the while loop, which it enters
\* when the buffer is empty and the paragraph alone exceeds target_chars
NextPara ==
  /\ tx_pc = "for" /\ tx_frame.paras # << >>
  /\ LET p == Strip(Head(tx_frame.paras))
     IN IF tx_frame.buf = << >> /\ Len(p) > tx_T
        THEN /\ tx_frame' = [tx_frame EXCEPT !.paras = Tail(@), !.big = p]
             /\ tx_pc' = "while"
             /\ UNCHANGED tx_chunks
        ELSE \E st \in {ParaStep([chunks |-> tx_chunks, buf |-> tx_frame.buf,
                                  start |-> tx_frame.start],
                                 Head(tx_frame.paras), tx_T, tx_O)} :
               /\ tx_frame' = [tx_frame EXCEPT !.paras = Tail(@), !.buf = st.buf,
                                               !.start = st.start]
               /\ tx_chunks' = st.chunks
               /\ tx_pc' = "for"
  /\ UNCHANGED cutRest

\* (mutant) the remainder is sliced from overlap_chars on
HardCutBody_from_overlap(big, start, T, O) ==
  LET part == Take(big, T)
      end == start + Len(part)
  IN [part |-> [text |-> part, s |-> start, e |-> end],
      big |-> Drop(big, O), start |-> end - O]

\* the body of "while len(big) > target_chars": the slice it emits, the
\* remainder it keeps and the offset of the remainder
HardCutBody(big, start, T, O) ==
  LET part == Take(big, T)
      end == start + Len(part)
  IN [part |-> [text |-> part, s |-> start, e |-> end],
      big |-> Drop(big, T - O), start |-> end - O]

\* one iteration of the while loop
CutSlice ==
  /\ tx_pc = "while" /\ Len(tx_frame.big) > tx_T
  /\ \E b \in {HardCutBody(tx_frame.big, tx_frame.start, tx_T, tx_O)} :
       /\ tx_chunks' = Append(tx_chunks, b.part)
       /\ tx_frame' = [tx_frame EXCEPT !.big = b.big, !.start = b.start]
  /\ UNCHANGED <<tx_pc, cutRest>>

\* the while condition fails: buf = big, and the for loop goes on
CutEnd ==
  /\ tx_pc = "while" /\ Len(tx_frame.big) <= tx_T
  /\ tx_frame' = [tx_frame EXCEPT !.buf = tx_frame.big, !.big = << >>]
  /\ tx_pc' = "for"
  /\ UNCHANGED <<tx_chunks, cutRest>>

\* the for loop is over: the last buffer is emitted and the function returns
ReturnChunks ==
  /\ tx_pc = "for" /\ tx_frame.paras = << >>
  /\ tx_chunks' = IF tx_frame.buf # << >>
                  THEN Append(tx_chunks,
                              [text |-> tx_frame.buf, s |-> tx_frame.start,
                               e |-> tx_frame.start + Len(tx_frame.buf)])
                  ELSE tx_chunks
  /\ tx_frame' = NoFrame
  /\ tx_pc' = "returned"
  /\ UNCHANGED cutRest

NextCut == SplitText \/ NextPara \/ CutSlice \/ CutEnd \/ ReturnChunks

\* the call runs on its own thread of control: a step that can be taken is taken
SpecCut == InitCut /\ [][NextCut]_vars /\ WF_vars(NextCut)

\* C30: for 0 <= overlap_chars < target_chars every call of
\* chunk_paragraph_aware returns: each iteration of the hard-cut loop emits
\* one slice and shortens the remaining paragraph by target_chars -
\* overlap_chars >= 1 characters, and what the call returns is the value
\* of the function.
C30_Terminates ==
  /\ <>(tx_pc = "returned")
  /\ [][(tx_pc = "while" /\ tx_pc' = "while") =>
          /\ tx_T - tx_O >= 1
          /\ Len(tx_frame.big') = Len(tx_frame.big) - (tx_T - tx_O)
          /\ Len(tx_chunks') = Len(tx_chunks) + 1]_vars
  /\ [](tx_pc = "returned" => tx_chunks = chunk_paragraph_aware(tx_norm, tx_T, tx_O))

\* a call that went through the hard-cut loop more than once has returned
C30_Witness ==
  /\ tx_pc = "returned"
  /\ tx_O > 0
  /\ Len(tx_chunks) >= 3
  /\ \A i \in 1..(Len(tx_chunks) - 1) : Len(tx_chunks[i].text) = tx_T
  /\ \A i \in DOMAIN tx_norm : tx_norm[i] = "a"

=============================================================================

